---- MODULE Spec2Model ----
(***************************************************************************)
(* Token authentication and transactional user creation of the facility    *)
(* reservation API: internal/user.go (CreateUser, GetAuthenticatedUser),    *)
(* the database service's Transaction, the auth middleware, and the         *)
(* PostgreSQL tables users / user_tokens with their constraints.            *)
(*                                                                         *)
(* Conventions.  An optional value (a Go nil pointer, an SQL NULL) is the   *)
(* empty sequence None, a present value x is <<x>>.  A Go error is the      *)
(* sequence of its messages from the outermost wrapper to the root cause    *)
(* (fmt.Errorf("...: %w", err) prepends one message); the nil error is the  *)
(* empty sequence.                                                          *)
(***************************************************************************)
EXTENDS Integers, Sequences, FiniteSets, TLC

\* ---------------------------------------------------------------- bounds
\* concurrent request tasks
NumProcs == 2
\* operations started in one run
MaxCalls == 3
\* infrastructure failures injected in one run
MaxFaults == 1
\* last value of the database clock
MaxTime == 1
\* calls on the ResponseWriter, and panics, in one run of an HTTP handler
MaxOps == 3

Procs == 1..NumProcs
Usernames == {"alice", "bob"}
\* tokenSizeBytes
tokenSizeBytes == 32
\* what rand.Read can fill the buffer of tokenSizeBytes bytes with
RandomReads == {[i \in 1..tokenSizeBytes |-> b] : b \in {1, 171}}
\* hex.EncodeToString: two lowercase hexadecimal digits per byte
HexDigit(n) == SubSeq("0123456789abcdef", n + 1, n + 1)
RECURSIVE EncodeToString(_)
EncodeToString(bytes) ==
  IF bytes = <<>> THEN ""
  ELSE HexDigit(Head(bytes) \div 16) \o HexDigit(Head(bytes) % 16)
         \o EncodeToString(Tail(bytes))
\* a token of half the size
generateTokenOfHalfSize(bytes) == EncodeToString(SubSeq(bytes, 1, tokenSizeBytes \div 2))
\* generateToken, given the bytes rand.Read delivered
generateToken(bytes) == EncodeToString(bytes)
\* values generateToken can return
Secrets == {generateToken(r) : r \in RandomReads}
\* a credential string that generateToken never produced
BogusSecret == "invalid-token"
\* expiry timestamps a token row can carry
Times == 0..MaxTime

None == <<>>
Some(x) == <<x>>

\* ---------------------------------------------------------------- errors
NoErr == <<>>
\* errors.New(msg)
New(msg) == <<msg>>
\* fmt.Errorf(msg + ": %w", err)
Errorf(msg, err) == <<msg>> \o err
\* derrors.Wrap(&err, msg): adds context only to a non-nil error
Wrap(err, msg) == IF err # NoErr THEN Errorf(msg, err) ELSE err
\* errors.Is(err, target): target is reached by unwrapping err
ErrorsIs(err, target) ==
  /\ Len(target) <= Len(err)
  /\ SubSeq(err, Len(err) - Len(target) + 1, Len(err)) = target

\* root causes produced by the store (pgx / PostgreSQL)
UniqueUsername == "23505 users_username_key"
UniqueToken == "23505 user_tokens_token_key"
\* an infrastructure failure: lost connection, timeout
ConnFailure == "connection failure"
ErrNoRows == "no rows in result set"
ErrTxClosed == "tx is closed"
\* ctx.Err() of a cancelled context, as the store calls return it
CtxCanceled == "context canceled"
\* puddle.ErrClosedPool, what pgxpool returns once the pool is closed
ErrClosedPool == "closed pool"
intentionalErr == New("intentional failure")

VARIABLES
  users,        \* committed rows of table users
  user_tokens,  \* committed rows of table user_tokens
  now,          \* the database clock, NOW()
  calls,        \* number of operations started so far (also feeds the id generator)
  faults,       \* number of infrastructure failures injected so far
  impl,         \* which Transaction implementation the service uses
  pc,           \* per task: where it is in its request
  req,          \* per task: the inputs of its request
  tx,           \* per task: its open database transaction and uncommitted rows
  loc,          \* per task: local variables of CreateUser and Transaction
  out,          \* per task: what its operations returned
  ops,          \* per task: the store calls it has issued, in order
  logged,       \* per task: errors written to the log by the rollback path
  pool,         \* the pgx connection pool of the database service
  srv,          \* the API server process: where run() is, its listener, the signal
  seen          \* per secret: the identities GetAuthenticatedUser has returned for it

vars == <<users, user_tokens, now, calls, faults, impl, pc, req, tx, loc, out, ops, logged,
          pool, srv, seen>>

\* ---------------------------------------------------------------- store
\* uuid.Must(uuid.NewV7()): two fresh identifiers per operation number c
NewUserID(c) == 2 * c - 1
NewTokenID(c) == 2 * c

UserRow(id, username, is_staff) ==
  [id |-> id, username |-> username, is_staff |-> is_staff]
TokenRow(id, user_id, token, name, expires_at) ==
  [id |-> id, user_id |-> user_id, token |-> token, name |-> name,
   expires_at |-> expires_at]

\* rows another open transaction has inserted and not yet committed
PendingUsers(p) ==
  {tx[q].user[1] : q \in {r \in Procs \ {p} : tx[r].open /\ tx[r].user # None}}
PendingTokens(p) ==
  {tx[q].token[1] : q \in {r \in Procs \ {p} : tx[r].open /\ tx[r].token # None}}

\* a users table without the unique key on username
NoUsernameKey(u) == FALSE

\* users_username_key UNIQUE (username)
UsernameTaken(u) == \E r \in users : r.username = u
\* PostgreSQL makes an insert wait for an in-progress transaction that holds
\* the same unique key
UsernameLocked(p, u) == \E r \in PendingUsers(p) : r.username = u
\* a user_tokens table without the unique key on token
NoTokenKey(s) == FALSE

\* user_tokens_token_key UNIQUE (token)
TokenTaken(s) == \E t \in user_tokens : t.token = s
TokenLocked(p, s) == \E t \in PendingTokens(p) : t.token = s

\* the query with an expiry test that lets the boundary instant through
GetUserByTokenInclusive(token) ==
  {UserRow(u.id, u.username, u.is_staff) :
     u \in {v \in users :
              \E t \in user_tokens :
                 /\ v.id = t.user_id
                 /\ t.token = token
                 /\ (t.expires_at = None \/ t.expires_at[1] >= now)}}

\* the query without the expiry test
GetUserByTokenIgnoringExpiry(token) ==
  {UserRow(u.id, u.username, u.is_staff) :
     u \in {v \in users :
              \E t \in user_tokens : v.id = t.user_id /\ t.token = token}}

\* GetUserByToken :one
\*   SELECT u.id, u.username, u.is_staff FROM users u
\*   JOIN user_tokens t ON u.id = t.user_id
\*   WHERE t.token = $1 AND (t.expires_at IS NULL OR t.expires_at > NOW())
GetUserByToken(token) ==
  {UserRow(u.id, u.username, u.is_staff) :
     u \in {v \in users :
              \E t \in user_tokens :
                 /\ v.id = t.user_id
                 /\ t.token = token
                 /\ (t.expires_at = None \/ t.expires_at[1] > now)}}

\* ---------------------------------------------------------------- identities
\* uuid.UUID.String()
UUIDString(id) == <<"uuid", id>>
AuthenticatedUser(id, username, is_staff) ==
  [ID |-> id, Username |-> username, IsStaff |-> is_staff]
\* the actors the tests hand to CreateUser: built by hand, not rows of the store
staffUser == AuthenticatedUser(<<"staff-user-id">>, "staff-user", TRUE)
nonStaffUser == AuthenticatedUser(<<"non-staff-user-id">>, "non-staff-user", FALSE)
Actors == {None, Some(staffUser), Some(nonStaffUser)}

\* ---------------------------------------------------------------- task state
NoReq == [kind |-> "none", header |-> <<>>, actor |-> None,
          username |-> "", is_staff |-> FALSE, querier |-> "set", token |-> "",
          route |-> "", prog |-> <<>>, afterClose |-> FALSE]
NoTx == [open |-> FALSE, closed |-> FALSE, user |-> None, token |-> None]
NoLoc == [callNo |-> 0, result |-> None, err |-> NoErr, committed |-> FALSE,
          unwind |-> "", ctxDone |-> FALSE, ip |-> 0]
\* the pool of a service that was just created: open, Close never called
NewPool == [closed |-> FALSE, closes |-> 0]
\* the API server process before run() is called
NoSrv == [pc |-> "init", listen |-> "none", signal |-> FALSE, events |-> <<>>,
          ret |-> None]
NoOut == [returned |-> FALSE, result |-> None, err |-> NoErr, txErr |-> NoErr,
          authErr |-> NoErr, http |-> 0, body |-> "", next |-> FALSE]

Init ==
  /\ users = {}
  /\ user_tokens = {}
  /\ now = 0
  /\ calls = 0
  /\ faults = 0
  /\ impl \in {"committedFlag", "alwaysRollback"}
  /\ pc = [p \in Procs |-> "idle"]
  /\ req = [p \in Procs |-> NoReq]
  /\ tx = [p \in Procs |-> NoTx]
  /\ loc = [p \in Procs |-> NoLoc]
  /\ out = [p \in Procs |-> NoOut]
  /\ ops = [p \in Procs |-> <<>>]
  /\ logged = [p \in Procs |-> <<>>]
  /\ pool = NewPool
  /\ srv = NoSrv
  /\ seen = [k \in Secrets |-> {}]

\* ---------------------------------------------------------------- CreateUser
\* a validation that looks the actor up in the store again
AuthorizeResolvingActor(actor) ==
  IF actor = None THEN New("authenticated user is required")
  ELSE IF ~\E u \in users : <<"uuid", u.id>> = actor[1].ID /\ u.is_staff
  THEN New("only staff users can create new users")
  ELSE NoErr

\* a validation that only asks for some authenticated actor
AuthorizeAnyActor(actor) ==
  IF actor = None THEN New("authenticated user is required") ELSE NoErr

\* a validation with one test and one message for both rejections
AuthorizeOneMessage(actor) ==
  IF actor = None \/ ~actor[1].IsStaff
  THEN New("only staff users can create new users")
  ELSE NoErr

\* CreateUser, the validation of the actor before any store call
Authorize(actor) ==
  IF actor = None THEN New("authenticated user is required")
  ELSE IF ~actor[1].IsStaff THEN New("only staff users can create new users")
  ELSE NoErr

\* a wrapper that reports the failure without its cause (%v instead of %w)
DataStoreTransactionOpaque(err) ==
  IF err # NoErr THEN New("DataStore.Transaction(ctx, fn) failed") ELSE err

\* DataStore.Transaction: derrors.Wrap around dbService.Transaction
DataStoreTransaction(err) == Wrap(err, "DataStore.Transaction(ctx, fn)")

\* a tail that returns the named result as it stands, next to the error
CreateUserReturnsNamedResult(err, result) ==
  [result |-> result,
   err |-> IF err # NoErr
           THEN Wrap(Errorf("transaction failed", err), "CreateUser(ctx, ds, user, params)")
           ELSE NoErr]

\* the tail of CreateUser: the error of ds.Transaction and the named result
CreateUserReturn(err, result) ==
  IF err # NoErr
  THEN [result |-> None,
        err |-> Wrap(Errorf("transaction failed", err),
                     "CreateUser(ctx, ds, user, params)")]
  ELSE [result |-> result, err |-> NoErr]

\* an entry that opens the transaction first and validates the actor inside it
EnterCreateUserValidatingLate(p, actor) ==
  LET e == Authorize(actor) IN
  IF e # NoErr
  THEN /\ out' = [out EXCEPT ![p].returned = TRUE, ![p].result = None,
                             ![p].err = Wrap(e, "CreateUser(ctx, ds, user, params)")]
       /\ pc' = [pc EXCEPT ![p] = "done"]
       /\ ops' = [ops EXCEPT ![p] = @ \o <<"begin", "rollback">>]
       /\ tx' = [tx EXCEPT ![p].closed = TRUE]
  ELSE /\ out' = out
       /\ pc' = [pc EXCEPT ![p] = "begin"]
       /\ ops' = ops
       /\ tx' = tx

\* entry of CreateUser with the given actor: reject, or go on to ds.Transaction
EnterCreateUser(p, actor) ==
  LET e == Authorize(actor) IN
  IF e # NoErr
  THEN /\ out' = [out EXCEPT ![p].returned = TRUE, ![p].result = None,
                             ![p].err = Wrap(e, "CreateUser(ctx, ds, user, params)")]
       /\ pc' = [pc EXCEPT ![p] = "done"]
       /\ ops' = ops
       /\ tx' = tx
  ELSE /\ out' = out
       /\ pc' = [pc EXCEPT ![p] = "begin"]
       /\ ops' = ops
       /\ tx' = tx

\* a direct call CreateUser(ctx, ds, actor, params), as the tests make it
CallCreateUser(p, actor, u, s) ==
  /\ pc[p] = "idle"
  /\ calls < MaxCalls
  /\ calls' = calls + 1
  /\ req' = [req EXCEPT ![p] = [NoReq EXCEPT !.kind = "create", !.actor = actor,
                                             !.username = u, !.is_staff = s]]
  /\ loc' = [loc EXCEPT ![p].callNo = calls + 1]
  /\ EnterCreateUser(p, actor)
  /\ UNCHANGED <<users, user_tokens, now, faults, impl, logged, pool, srv, seen>>

\* ---------------------------------------------------------------- Transaction
\* an INSERT ... ON CONFLICT DO NOTHING: a taken key is no error
InsertIgnoringConflict(taken, locked, violation) ==
  (IF faults < MaxFaults THEN {ConnFailure} ELSE {})
    \cup (IF locked THEN {} ELSE {"ok"})

\* outcomes of an INSERT guarded by a unique key: an infrastructure failure,
\* a unique violation against a committed row, success; while another open
\* transaction holds the key the statement waits
InsertOutcomes(taken, locked, violation) ==
  (IF faults < MaxFaults THEN {ConnFailure} ELSE {})
    \cup (IF taken THEN {violation} ELSE IF locked THEN {} ELSE {"ok"})

Injected(o) == IF o = ConnFailure THEN faults + 1 ELSE faults

\* a store call made with the ctx of task p: once the ctx is done the call
\* returns ctx.Err() instead of any of its outcomes, and does not wait
WithCtx(p, outcomes) == IF loc[p].ctxDone THEN {CtxCanceled} ELSE outcomes

\* what a call on the pool can meet: a closed pool fails every call
OnPool(outcomes) == IF pool.closed THEN {ErrClosedPool} ELSE outcomes

\* ds.pool.Begin(ctx)
Transaction_Begin(p) ==
  /\ pc[p] = "begin"
  /\ \E o \in OnPool({"ok"} \cup (IF faults < MaxFaults THEN {ConnFailure} ELSE {})) :
       /\ faults' = Injected(o)
       /\ ops' = [ops EXCEPT ![p] = Append(@, "begin")]
       /\ IF o = "ok"
          THEN /\ tx' = [tx EXCEPT ![p].open = TRUE]
               /\ pc' = [pc EXCEPT ![p] = "createUser"]
               /\ out' = out
          ELSE /\ tx' = tx
               /\ pc' = [pc EXCEPT ![p] = "done"]
               /\ out' = [out EXCEPT ![p] =
                    LET e == Errorf("failed to begin transaction", New(o)) IN
                    IF req[p].kind = "txtest"
                    THEN [@ EXCEPT !.returned = TRUE, !.txErr = e]
                    ELSE LET r == CreateUserReturn(DataStoreTransaction(e), loc[p].result)
                         IN [@ EXCEPT !.returned = TRUE, !.txErr = e,
                                      !.result = r.result, !.err = r.err]]
  /\ UNCHANGED <<users, user_tokens, now, calls, impl, req, loc, logged, pool, srv, seen>>

\* the insert issued on the pool instead of the transaction: visible at once
WriteUserOnPool(p, row) ==
  [users |-> users \cup {row}, tx |-> [tx EXCEPT ![p].user = Some(row)]]

\* tx.CreateUser inside fn: the row is written in the scope of the transaction
WriteUser(p, row) ==
  [users |-> users, tx |-> [tx EXCEPT ![p].user = Some(row)]]

\* fn, first statement: userID := uuid.NewV7(); tx.CreateUser(...)
Fn_CreateUser(p) ==
  /\ pc[p] = "createUser"
  /\ LET u == req[p].username
         row == UserRow(NewUserID(loc[p].callNo), u, req[p].is_staff)
     IN \E o \in WithCtx(p, InsertOutcomes(UsernameTaken(u), UsernameLocked(p, u),
                                             UniqueUsername)) :
          /\ faults' = Injected(o)
          /\ ops' = [ops EXCEPT ![p] = Append(@, "createUser")]
          /\ IF o = "ok"
             THEN /\ users' = WriteUser(p, row).users
                  /\ tx' = WriteUser(p, row).tx
                  /\ IF req[p].kind = "txtest"
                     THEN /\ loc' = [loc EXCEPT ![p].err = intentionalErr]
                          /\ pc' = [pc EXCEPT ![p] = "deferred"]
                     ELSE /\ loc' = loc
                          /\ pc' = [pc EXCEPT ![p] = "createToken"]
             ELSE /\ users' = users
                  /\ tx' = tx
                  /\ pc' = [pc EXCEPT ![p] = "deferred"]
                  /\ IF req[p].kind = "txtest"
                     THEN loc' = [loc EXCEPT ![p].unwind = "goexit"]
                     ELSE loc' = [loc EXCEPT ![p].err =
                                    Errorf("failed to create user", New(o))]
  /\ UNCHANGED <<user_tokens, now, calls, impl, req, out, logged, pool, srv, seen>>

\* fn, second statement: tokenID := uuid.NewV7(); token := generateToken();
\* tx.CreateToken(...); result = &CreateUserResult{...}
Fn_CreateToken(p) ==
  /\ pc[p] = "createToken"
  /\ \E s \in Secrets :
       LET user == tx[p].user[1]
           row == TokenRow(NewTokenID(loc[p].callNo), user.id, s, "Default Token", None)
       IN \E o \in WithCtx(p, InsertOutcomes(TokenTaken(s), TokenLocked(p, s),
                                               UniqueToken)) :
            /\ faults' = Injected(o)
            /\ ops' = [ops EXCEPT ![p] = Append(@, "createToken")]
            /\ IF o = "ok"
               THEN /\ tx' = [tx EXCEPT ![p].token = Some(row)]
                    /\ loc' = [loc EXCEPT ![p].result =
                                 Some([User |-> user, Token |-> row])]
                    /\ pc' = [pc EXCEPT ![p] = "commit"]
               ELSE /\ tx' = tx
                    /\ loc' = [loc EXCEPT ![p].err =
                                 Errorf("failed to create token", New(o))]
                    /\ pc' = [pc EXCEPT ![p] = "deferred"]
  /\ UNCHANGED <<users, user_tokens, now, calls, impl, req, out, logged, pool, srv, seen>>

\* fn, second statement, when rand.Read fails: generateToken panics, after
\* the user row was inserted and before tx.CreateToken is called
Fn_GenerateTokenPanics(p) ==
  /\ pc[p] = "createToken"
  /\ faults < MaxFaults
  /\ faults' = faults + 1
  /\ loc' = [loc EXCEPT ![p].unwind = "panic"]
  /\ pc' = [pc EXCEPT ![p] = "deferred"]
  /\ UNCHANGED <<users, user_tokens, now, calls, impl, req, tx, out, ops, logged, pool, srv, seen>>

\* elements of a sequence
Range(seq) == {seq[i] : i \in 1..Len(seq)}

\* rows of an optional row
Rows(opt) == {opt[i] : i \in 1..Len(opt)}

\* tx.Commit(ctx): on success every row of the transaction becomes visible at
\* once; on failure none does; either way the pgx transaction is closed
Commit(p, ok) ==
  [users |-> IF ok THEN users \cup Rows(tx[p].user) ELSE users,
   user_tokens |-> IF ok THEN user_tokens \cup Rows(tx[p].token) ELSE user_tokens,
   tx |-> [tx EXCEPT ![p] = [open |-> FALSE, closed |-> TRUE,
                              user |-> None, token |-> None]]]

\* a Transaction that calls Commit again when it failed
Transaction_CommitWithRetry(p) ==
  /\ pc[p] = "commit"
  /\ \E o \in WithCtx(p, {"ok"} \cup (IF faults < MaxFaults THEN {ConnFailure} ELSE {})) :
       /\ faults' = Injected(o)
       /\ ops' = [ops EXCEPT ![p] = Append(@, "commit")]
       /\ users' = IF o = "ok" THEN Commit(p, TRUE).users ELSE users
       /\ user_tokens' = IF o = "ok" THEN Commit(p, TRUE).user_tokens ELSE user_tokens
       /\ tx' = IF o = "ok" THEN Commit(p, TRUE).tx ELSE tx
       /\ loc' = IF o = "ok" THEN [loc EXCEPT ![p].committed = TRUE] ELSE loc
       /\ pc' = IF o = "ok" THEN [pc EXCEPT ![p] = "deferred"] ELSE pc
  /\ UNCHANGED <<now, calls, impl, req, out, logged, pool, srv, seen>>

Transaction_Commit(p) ==
  /\ pc[p] = "commit"
  /\ \E o \in WithCtx(p, {"ok"} \cup (IF faults < MaxFaults THEN {ConnFailure} ELSE {})) :
       /\ faults' = Injected(o)
       /\ ops' = [ops EXCEPT ![p] = Append(@, "commit")]
       /\ users' = Commit(p, o = "ok").users
       /\ user_tokens' = Commit(p, o = "ok").user_tokens
       /\ tx' = Commit(p, o = "ok").tx
       /\ loc' = IF o = "ok"
                 THEN [loc EXCEPT ![p].committed = TRUE]
                 ELSE [loc EXCEPT ![p].err =
                         Errorf("failed to commit transaction", New(o))]
       /\ pc' = [pc EXCEPT ![p] = "deferred"]
  /\ UNCHANGED <<now, calls, impl, req, out, logged, pool, srv, seen>>

\* a cleanup written after fn instead of deferred: a panic passes it by
SkipsRollbackOnPanic(p) ==
  \/ impl = "committedFlag" /\ loc[p].committed
  \/ loc[p].unwind = "panic"

\* a deferred function that gives up when the ctx is done
SkipsRollbackWhenCtxDone(p) ==
  \/ impl = "committedFlag" /\ loc[p].committed
  \/ loc[p].ctxDone

\* the deferred function skips the rollback
SkipsRollback(p) == impl = "committedFlag" /\ loc[p].committed

\* what tx.Rollback(ctx) can return
RollbackOutcomes(p) ==
  IF tx[p].closed THEN {ErrTxClosed}
  ELSE WithCtx(p, {"ok"} \cup (IF faults < MaxFaults THEN {ConnFailure} ELSE {}))

\* a deferred function that drops the rollback error
LogsNothing(o) == FALSE

\* the deferred function logs the rollback error
LogsRollback(o) ==
  /\ o \notin {"ok", "skipped"}
  /\ (impl = "committedFlag" => o # ErrTxClosed)

\* tx.Rollback(ctx): the uncommitted rows are discarded, also when the call
\* fails (the server aborts the transaction of a lost connection)
Rollback(p) == [tx EXCEPT ![p] = [open |-> FALSE, closed |-> TRUE,
                                  user |-> None, token |-> None]]

\* a deferred function that returns whatever Rollback returned, pgx.ErrTxClosed
\* after a commit included
TransactionReturnsAnyRollbackErr(err, r) ==
  IF r \notin {"ok", "skipped"} THEN New(r) ELSE err

\* a deferred function that overwrites the returned error with the rollback
\* error
TransactionReturnsRollbackErr(err, r) ==
  IF r \notin {"ok", "skipped", ErrTxClosed} THEN New(r) ELSE err

\* what Transaction returns after the deferred function ran: the error of fn
\* or of Commit; the rollback error r is logged at most, never returned
TransactionReturn(err, r) == err

\* the deferred function of Transaction, then the return to the caller
Transaction_Deferred(p) ==
  /\ pc[p] = "deferred"
  /\ \E o \in IF SkipsRollback(p) THEN {"skipped"} ELSE RollbackOutcomes(p) :
       LET e == TransactionReturn(loc[p].err, o) IN
       /\ faults' = Injected(o)
       /\ ops' = IF o = "skipped" THEN ops ELSE [ops EXCEPT ![p] = Append(@, "rollback")]
       /\ tx' = IF o = "skipped" THEN tx ELSE Rollback(p)
       /\ logged' = IF LogsRollback(o)
                    THEN [logged EXCEPT ![p] = Append(@, o)]
                    ELSE logged
       /\ out' = [out EXCEPT ![p] =
            IF loc[p].unwind # "" THEN @
            ELSE IF req[p].kind = "txtest"
            THEN [@ EXCEPT !.returned = TRUE, !.txErr = e]
            ELSE LET r == CreateUserReturn(DataStoreTransaction(e), loc[p].result)
                 IN [@ EXCEPT !.returned = TRUE, !.txErr = e,
                              !.result = r.result, !.err = r.err]]
  /\ pc' = [pc EXCEPT ![p] = "done"]
  /\ UNCHANGED <<users, user_tokens, now, calls, impl, req, loc, pool, srv, seen>>

\* the caller's ctx is cancelled, or its deadline fires, between the begin
\* and the commit of the transaction
Cancel(p) ==
  /\ pc[p] \in {"createUser", "createToken", "commit"}
  /\ ~loc[p].ctxDone
  /\ loc' = [loc EXCEPT ![p].ctxDone = TRUE]
  /\ UNCHANGED <<users, user_tokens, now, calls, faults, impl, pc, req, tx, out, ops,
                 logged, pool, srv, seen>>

\* the task takes up its next request
Reset(p) ==
  /\ pc[p] = "done"
  /\ pc' = [pc EXCEPT ![p] = "idle"]
  /\ req' = [req EXCEPT ![p] = NoReq]
  /\ tx' = [tx EXCEPT ![p] = NoTx]
  /\ loc' = [loc EXCEPT ![p] = NoLoc]
  /\ out' = [out EXCEPT ![p] = NoOut]
  /\ ops' = [ops EXCEPT ![p] = <<>>]
  /\ logged' = [logged EXCEPT ![p] = <<>>]
  /\ UNCHANGED <<users, user_tokens, now, calls, faults, impl, pool, srv, seen>>

\* TestDatabaseService_Transaction_Rollback: ds.Transaction with a unit of
\* work that inserts a user and then returns intentionalErr
CallTransactionTest(p, u) ==
  /\ pc[p] = "idle"
  /\ calls < MaxCalls
  /\ calls' = calls + 1
  /\ req' = [req EXCEPT ![p] = [NoReq EXCEPT !.kind = "txtest", !.username = u]]
  /\ loc' = [loc EXCEPT ![p].callNo = calls + 1]
  /\ pc' = [pc EXCEPT ![p] = "begin"]
  /\ UNCHANGED <<users, user_tokens, now, faults, impl, tx, out, ops, logged, pool, srv, seen>>

\* ---------------------------------------------------------------- auth
\* the Authorization headers a request can carry: none, another scheme,
\* "Bearer " alone, "Bearer " followed by a credential
Headers ==
  {<<>>, <<"Basic ", BogusSecret>>, <<"Bearer ">>}
    \cup {<<"Bearer ", s>> : s \in Secrets \cup {BogusSecret}}

\* extractBearerToken: strings.HasPrefix / strings.TrimPrefix on the header,
\* a header being the sequence of its scheme prefix and its remainder
extractBearerToken(h) ==
  IF h = <<>>
  THEN [token |-> "", err |-> New("missing authorization header")]
  ELSE IF Head(h) # "Bearer "
  THEN [token |-> "", err |-> New("authorization header must use Bearer scheme")]
  ELSE IF Tail(h) = <<>>
  THEN [token |-> "", err |-> New("empty token in authorization header")]
  ELSE [token |-> Head(Tail(h)), err |-> NoErr]

\* a :one query that returns the zero row and no error when nothing matches
QueryUserByTokenZeroRow(token, o) ==
  IF o # "ok" THEN [row |-> None, err |-> New(o)]
  ELSE IF GetUserByToken(token) = {} THEN [row |-> Some(UserRow(0, "", FALSE)), err |-> NoErr]
  ELSE [row |-> Some(CHOOSE r \in GetUserByToken(token) : TRUE), err |-> NoErr]

\* querier.GetUserByToken(ctx, token), a :one query: the row, pgx.ErrNoRows,
\* or the infrastructure failure o
QueryUserByToken(token, o) ==
  IF o # "ok" THEN [row |-> None, err |-> New(o)]
  ELSE IF GetUserByToken(token) = {} THEN [row |-> None, err |-> New(ErrNoRows)]
  ELSE [row |-> Some(CHOOSE r \in GetUserByToken(token) : TRUE), err |-> NoErr]

\* a conversion of the row that leaves IsStaff at its zero value
GetAuthenticatedUserWithoutStaff(querier, q) ==
  IF querier = "nil"
  THEN [user |-> None,
        err |-> Wrap(New("querier is nil"),
                     "GetAuthenticatedUser(ctx, querier, token)")]
  ELSE IF q.err # NoErr
  THEN [user |-> None,
        err |-> Wrap(New("invalid or expired token"),
                     "GetAuthenticatedUser(ctx, querier, token)")]
  ELSE [user |-> Some(AuthenticatedUser(UUIDString(q.row[1].id), q.row[1].username,
                                        FALSE)),
        err |-> NoErr]

\* the querier handed to GetAuthenticatedUser / AuthMiddleware: a nil
\* interface or a query interface on the pool
Queriers == {"nil", "set"}

\* GetAuthenticatedUser, given the querier and what the query returned
GetAuthenticatedUser(querier, q) ==
  IF querier = "nil"
  THEN [user |-> None,
        err |-> Wrap(New("querier is nil"),
                     "GetAuthenticatedUser(ctx, querier, token)")]
  ELSE IF q.err # NoErr
  THEN [user |-> None,
        err |-> Wrap(New("invalid or expired token"),
                     "GetAuthenticatedUser(ctx, querier, token)")]
  ELSE [user |-> Some(AuthenticatedUser(UUIDString(q.row[1].id), q.row[1].username,
                                        q.row[1].is_staff)),
        err |-> NoErr]

\* authenticateToken
authenticateToken(querier, q) ==
  LET r == GetAuthenticatedUser(querier, q) IN
  IF querier = "nil"
  THEN [user |-> None, err |-> New("querier is nil")]
  ELSE IF r.err # NoErr
  THEN [user |-> None, err |-> Errorf("authentication failed", r.err)]
  ELSE r

\* what the call querier.GetUserByToken can meet: with a nil querier the call
\* is never made
LookupOutcomes(querier) ==
  IF querier = "nil" THEN {"unused"}
  ELSE OnPool({"ok"} \cup (IF faults < MaxFaults THEN {ConnFailure} ELSE {}))

\* http.Error(w, "Unauthorized", http.StatusUnauthorized)
Unauthorized(o) == [o EXCEPT !.http = 401, !.body = "Unauthorized"]

\* an HTTP request arrives at a middleware built with the given querier
StartRequest(p, h, querier) ==
  /\ pc[p] = "idle"
  /\ calls < MaxCalls
  /\ calls' = calls + 1
  /\ req' = [req EXCEPT ![p] = [NoReq EXCEPT !.kind = "api", !.header = h,
                                             !.querier = querier]]
  /\ loc' = [loc EXCEPT ![p].callNo = calls + 1]
  /\ pc' = [pc EXCEPT ![p] = "auth"]
  /\ UNCHANGED <<users, user_tokens, now, faults, impl, tx, out, ops, logged, pool, srv, seen>>

\* AuthMiddleware: 401, or the next handler with the user in the context
AuthMiddleware(p) ==
  /\ pc[p] = "auth"
  /\ LET ex == extractBearerToken(req[p].header) IN
     IF ex.err # NoErr
     THEN /\ out' = [out EXCEPT ![p] = Unauthorized([@ EXCEPT !.authErr = ex.err])]
          /\ pc' = [pc EXCEPT ![p] = "done"]
          /\ UNCHANGED <<req, ops, faults>>
     ELSE \E o \in LookupOutcomes(req[p].querier) :
            LET au == authenticateToken(req[p].querier, QueryUserByToken(ex.token, o)) IN
            /\ faults' = Injected(o)
            /\ ops' = IF o = "unused" THEN ops
                      ELSE [ops EXCEPT ![p] = Append(@, "getUserByToken")]
            /\ IF au.err # NoErr
               THEN /\ out' = [out EXCEPT ![p] = Unauthorized([@ EXCEPT !.authErr = au.err])]
                    /\ pc' = [pc EXCEPT ![p] = "done"]
                    /\ req' = req
               ELSE /\ out' = [out EXCEPT ![p].next = TRUE]
                    /\ pc' = [pc EXCEPT ![p] = "handler"]
                    /\ req' = [req EXCEPT ![p].actor = au.user]
  /\ UNCHANGED <<users, user_tokens, now, calls, impl, tx, loc, logged, pool, srv, seen>>

\* the strings a caller can hand to GetAuthenticatedUser as the token
TokenStrings == Secrets \cup {BogusSecret, ""}

\* a direct call GetAuthenticatedUser(ctx, querier, token)
CallGetAuthenticatedUser(p, querier, token) ==
  /\ pc[p] = "idle"
  /\ calls < MaxCalls
  /\ calls' = calls + 1
  /\ req' = [req EXCEPT ![p] = [NoReq EXCEPT !.kind = "authn", !.querier = querier,
                                             !.token = token]]
  /\ loc' = [loc EXCEPT ![p].callNo = calls + 1]
  /\ \E o \in LookupOutcomes(querier) :
       LET r == GetAuthenticatedUser(querier, QueryUserByToken(token, o)) IN
       /\ faults' = Injected(o)
       /\ ops' = IF o = "unused" THEN ops
                 ELSE [ops EXCEPT ![p] = Append(@, "getUserByToken")]
       /\ out' = [out EXCEPT ![p].returned = TRUE, ![p].result = r.user,
                             ![p].authErr = r.err]
  /\ pc' = [pc EXCEPT ![p] = "done"]
  /\ UNCHANGED <<users, user_tokens, now, impl, tx, logged, pool, srv, seen>>

\* the next handler: CreateUser with the user GetUserFromContext returns
Handler(p, u, s) ==
  /\ pc[p] = "handler"
  /\ req' = [req EXCEPT ![p].username = u, ![p].is_staff = s]
  /\ EnterCreateUser(p, req[p].actor)
  /\ UNCHANGED <<users, user_tokens, now, calls, faults, impl, loc, logged, pool, srv, seen>>

\* the next handler of TestAuthMiddleware: reads the user with
\* GetUserFromContext and answers 200
NextHandler_ServeHTTP(p) ==
  /\ pc[p] = "handler"
  /\ out' = [out EXCEPT ![p].returned = TRUE, ![p].result = req[p].actor,
                        ![p].http = 200]
  /\ pc' = [pc EXCEPT ![p] = "done"]
  /\ UNCHANGED <<users, user_tokens, now, calls, faults, impl, req, tx, loc, ops, logged, pool, srv, seen>>

\* ---------------------------------------------------------------- recovery
\* what a handler does with its ResponseWriter, one call at a time, and the
\* point where it panics
HandlerOps ==
  {[op |-> "WriteHeader", code |-> c, data |-> ""] : c \in {200, 418}}
    \cup {[op |-> "Write", code |-> 0, data |-> "ok"],
          [op |-> "panic", code |-> 0, data |-> ""]}

\* tuples of length n over S
RECURSIVE Tuples(_, _)
Tuples(S, n) ==
  IF n = 0 THEN {<<>>}
  ELSE {Append(t, x) : t \in Tuples(S, n - 1), x \in S}

\* the handlers: every sequence of at most MaxOps steps that ends at its
\* first panic
Handlers ==
  {h \in UNION {Tuples(HandlerOps, n) : n \in 0..MaxOps} :
     \A i \in 1..(Len(h) - 1) : h[i].op # "panic"}

\* the handler panics
Panics(h) == \E i \in 1..Len(h) : h[i].op = "panic"

\* w.WriteHeader(code): the first call fixes the status, a later call is
\* superfluous and ignored (http = 0: no header written yet)
WriteHeader(o, code) == IF o.http # 0 THEN o ELSE [o EXCEPT !.http = code]

\* w.Write(data): writes the header with 200 if none was written, then
\* appends to the body
Write(o, data) == [WriteHeader(o, 200) EXCEPT !.body = @ \o data]

\* http.Error(w, msg, code): WriteHeader(code), then the message and a
\* newline
HttpError(o, msg, code) == Write(WriteHeader(o, code), msg \o "\n")

\* the status a client or an httptest.ResponseRecorder sees: 200 when the
\* handler returned without writing a header
Code(o) == IF o.http = 0 THEN 200 ELSE o.http

\* a request arrives at RecoveryMiddleware(h), as in TestRecoveryMiddleware
CallRecovery(p, h) ==
  /\ pc[p] = "idle"
  /\ calls < MaxCalls
  /\ calls' = calls + 1
  /\ req' = [req EXCEPT ![p] = [NoReq EXCEPT !.kind = "recovery", !.prog = h]]
  /\ loc' = [loc EXCEPT ![p].callNo = calls + 1]
  /\ pc' = [pc EXCEPT ![p] = "serve"]
  /\ UNCHANGED <<users, user_tokens, now, faults, impl, tx, out, ops, logged, pool, srv, seen>>

\* next.ServeHTTP(w, r): the handler makes its next call on w, panics, or
\* returns
Handler_Step(p) ==
  /\ pc[p] = "serve"
  /\ IF loc[p].ip = Len(req[p].prog)
     THEN /\ pc' = [pc EXCEPT ![p] = "recover"]
          /\ UNCHANGED <<loc, out>>
     ELSE LET c == req[p].prog[loc[p].ip + 1] IN
          IF c.op = "panic"
          THEN /\ loc' = [loc EXCEPT ![p].unwind = "panic"]
               /\ pc' = [pc EXCEPT ![p] = "recover"]
               /\ out' = out
          ELSE /\ loc' = [loc EXCEPT ![p].ip = @ + 1]
               /\ out' = [out EXCEPT ![p] =
                            IF c.op = "WriteHeader" THEN WriteHeader(@, c.code)
                            ELSE Write(@, c.data)]
               /\ pc' = pc
  /\ UNCHANGED <<users, user_tokens, now, calls, faults, impl, req, tx, ops, logged, pool, srv, seen>>

\* the deferred function of RecoveryMiddleware: recover(), and after a panic
\* the log entry and http.Error(w, "Internal Server Error", 500)
RecoveryMiddleware_Deferred(p) ==
  /\ pc[p] = "recover"
  /\ IF loc[p].unwind = "panic"
     THEN /\ loc' = [loc EXCEPT ![p].unwind = ""]
          /\ logged' = [logged EXCEPT ![p] = Append(@, "HTTP handler panic")]
          /\ out' = [out EXCEPT ![p] =
                       [HttpError(@, "Internal Server Error", 500) EXCEPT !.returned = TRUE]]
     ELSE /\ out' = [out EXCEPT ![p].returned = TRUE]
          /\ UNCHANGED <<loc, logged>>
  /\ pc' = [pc EXCEPT ![p] = "done"]
  /\ UNCHANGED <<users, user_tokens, now, calls, faults, impl, req, tx, ops, pool, srv, seen>>

\* ---------------------------------------------------------------- server
\* operations of the API: the public listing and an administrative one
Routes == {"facilities_list", "admin_users_create"}

\* the handlers the generated server can run for an operation
ServerHandlers == {h \in Handlers : Len(h) <= 2}

\* run(): a request arrives at LoggingMiddleware(AuthMiddleware(db)(
\* RecoveryMiddleware(handler))); db is the database service, not nil
Server_ServeHTTP(p, route, h) ==
  /\ pc[p] = "idle"
  /\ calls < MaxCalls
  /\ calls' = calls + 1
  /\ req' = [req EXCEPT ![p] = [NoReq EXCEPT !.kind = "api", !.header = h,
                                             !.querier = "set", !.route = route]]
  /\ loc' = [loc EXCEPT ![p].callNo = calls + 1]
  /\ pc' = [pc EXCEPT ![p] = "auth"]
  /\ UNCHANGED <<users, user_tokens, now, faults, impl, tx, out, ops, logged, pool, srv, seen>>

\* the request has passed AuthMiddleware and enters RecoveryMiddleware around
\* the handler of api.NewServer(svc), which serves the operation
APIServer(p, h) ==
  /\ pc[p] = "handler"
  /\ req[p].route \in Routes
  /\ req' = [req EXCEPT ![p].prog = h]
  /\ pc' = [pc EXCEPT ![p] = "serve"]
  /\ UNCHANGED <<users, user_tokens, now, calls, faults, impl, tx, loc, out, ops, logged, pool, srv, seen>>

\* ---------------------------------------------------------------- lifecycle
\* ds.Close(): PgxDBService closes the pool; the DatabaseService with the
\* transaction strategy has the call commented out
Close(pl) ==
  [pl EXCEPT !.closes = @ + 1,
             !.closed = IF impl = "committedFlag" THEN TRUE ELSE @]

\* the test (or the owner of the service) calls ds.Close(); it returns
CallClose ==
  /\ calls < MaxCalls
  /\ calls' = calls + 1
  /\ pool' = Close(pool)
  /\ UNCHANGED <<users, user_tokens, now, faults, impl, pc, req, tx, loc, out, ops, logged,
                 srv, seen>>

\* a task calls ds.HealthCheck(ctx), with a live ctx or with one whose
\* deadline has passed
CallHealthCheck(p, ctxDone) ==
  /\ pc[p] = "idle"
  /\ calls < MaxCalls
  /\ calls' = calls + 1
  /\ req' = [req EXCEPT ![p] = [NoReq EXCEPT !.kind = "health",
                                             !.afterClose = pool.closes > 0]]
  /\ loc' = [loc EXCEPT ![p].callNo = calls + 1, ![p].ctxDone = ctxDone]
  /\ pc' = [pc EXCEPT ![p] = "ping"]
  /\ UNCHANGED <<users, user_tokens, now, faults, impl, tx, out, ops, logged, pool, srv, seen>>

\* HealthCheck, given what ds.pool.Ping(ctx) returned
HealthCheck(o) ==
  IF o = "ok" THEN NoErr ELSE Errorf("database health check failed", New(o))

\* ds.pool.Ping(ctx) and the return of HealthCheck
HealthCheck_Ping(p) ==
  /\ pc[p] = "ping"
  /\ \E o \in OnPool(WithCtx(p, {"ok"} \cup (IF faults < MaxFaults THEN {ConnFailure} ELSE {}))) :
       /\ faults' = Injected(o)
       /\ ops' = [ops EXCEPT ![p] = Append(@, "ping")]
       /\ out' = [out EXCEPT ![p].returned = TRUE, ![p].err = HealthCheck(o)]
  /\ pc' = [pc EXCEPT ![p] = "done"]
  /\ UNCHANGED <<users, user_tokens, now, calls, impl, req, tx, loc, logged, pool, srv, seen>>

\* ---------------------------------------------------------------- run()
\* main calls run(ctx)
Run_Start ==
  /\ srv.pc = "init"
  /\ srv' = [srv EXCEPT !.pc = "newdb"]
  /\ UNCHANGED <<users, user_tokens, now, calls, faults, impl, pc, req, tx, loc, out, ops,
                 logged, pool, seen>>

\* SIGINT or SIGTERM arrives: signal.NotifyContext cancels the ctx of run
Signal ==
  /\ srv.pc # "init"
  /\ ~srv.signal
  /\ srv' = [srv EXCEPT !.signal = TRUE]
  /\ UNCHANGED <<users, user_tokens, now, calls, faults, impl, pc, req, tx, loc, out, ops,
                 logged, pool, seen>>

\* internal.NewDBService(ctx, databaseURL): the pool, or an error and run
\* returns before the deferred Close is registered
Run_NewDBService ==
  /\ srv.pc = "newdb"
  /\ \E o \in IF srv.signal THEN {CtxCanceled}
            ELSE {"ok"} \cup (IF faults < MaxFaults THEN {ConnFailure} ELSE {}) :
       /\ faults' = Injected(o)
       /\ srv' = IF o = "ok"
                 THEN [srv EXCEPT !.pc = "newserver", !.events = Append(@, "newdb")]
                 ELSE [srv EXCEPT !.pc = "returned",
                                  !.ret = Some(Errorf("failed to initialize database", New(o)))]
  /\ UNCHANGED <<users, user_tokens, now, calls, impl, pc, req, tx, loc, out, ops, logged,
                 pool, seen>>

\* api.NewServer(svc): the handler, or an error and run returns
Run_NewServer ==
  /\ srv.pc = "newserver"
  /\ \E o \in {"ok", "invalid server options"} :
       srv' = IF o = "ok"
              THEN [srv EXCEPT !.pc = "serve"]
              ELSE [srv EXCEPT !.pc = "deferred",
                               !.ret = Some(Errorf("failed to create server", New(o)))]
  /\ UNCHANGED <<users, user_tokens, now, calls, faults, impl, pc, req, tx, loc, out, ops,
                 logged, pool, seen>>

\* go func() { server.ListenAndServe() }(): the goroutine is started and run
\* goes on to <-ctx.Done()
Run_GoListen ==
  /\ srv.pc = "serve"
  /\ srv' = [srv EXCEPT !.pc = "wait", !.listen = "starting"]
  /\ UNCHANGED <<users, user_tokens, now, calls, faults, impl, pc, req, tx, loc, out, ops,
                 logged, pool, seen>>

\* server.ListenAndServe() in the goroutine: it serves, or it returns at once,
\* with ErrServerClosed after a Shutdown, else with the error of net.Listen,
\* which the goroutine logs
Listen_Start ==
  /\ srv.listen = "starting"
  /\ \E o \in IF "shutdown" \in Range(srv.events) THEN {"closed"}
            ELSE {"serving", "failed"} :
       srv' = [srv EXCEPT !.listen = o,
                          !.events = IF o = "failed" THEN Append(@, "failed to start server")
                                     ELSE @]
  /\ UNCHANGED <<users, user_tokens, now, calls, faults, impl, pc, req, tx, loc, out, ops,
                 logged, pool, seen>>

\* a run() that closes the pool when the signal has arrived, before Shutdown
Run_CloseThenShutdown ==
  /\ srv.pc = "wait"
  /\ srv.signal
  /\ pool' = Close(pool)
  /\ srv' = [srv EXCEPT !.pc = "shutdown", !.events = Append(@, "close")]
  /\ UNCHANGED <<users, user_tokens, now, calls, faults, impl, pc, req, tx, loc, out, ops,
                 logged, seen>>

\* <-ctx.Done()
Run_Wait ==
  /\ srv.pc = "wait"
  /\ srv.signal
  /\ srv' = [srv EXCEPT !.pc = "shutdown"]
  /\ UNCHANGED <<users, user_tokens, now, calls, faults, impl, pc, req, tx, loc, out, ops,
                 logged, pool, seen>>

\* some request is being served
InFlight == \E p \in Procs : pc[p] \notin {"idle", "done"}

\* server.Shutdown(shutdownCtx): the listener is closed; Shutdown waits for
\* the requests in flight and returns nil, or returns the ctx error when the
\* shutdownTimeout has passed before they ended
Run_Shutdown ==
  /\ srv.pc = "shutdown"
  /\ \E o \in IF InFlight THEN {"context deadline exceeded"} ELSE {"ok"} :
       srv' = [srv EXCEPT !.pc = "deferred",
                          !.listen = IF @ = "serving" THEN "closed" ELSE @,
                          !.events = Append(@, "shutdown"),
                          !.ret = IF o = "ok" THEN Some(NoErr)
                                  ELSE Some(Errorf("server forced to shutdown", New(o)))]
  /\ UNCHANGED <<users, user_tokens, now, calls, faults, impl, pc, req, tx, loc, out, ops,
                 logged, pool, seen>>

\* defer db.Close(), then run returns
Run_Deferred ==
  /\ srv.pc = "deferred"
  /\ pool' = Close(pool)
  /\ srv' = [srv EXCEPT !.pc = "returned", !.events = Append(@, "close")]
  /\ UNCHANGED <<users, user_tokens, now, calls, faults, impl, pc, req, tx, loc, out, ops,
                 logged, seen>>

\* the steps of run() and of its goroutine
RunSteps ==
  \/ Run_Start
  \/ Run_NewDBService
  \/ Run_NewServer
  \/ Run_GoListen
  \/ Listen_Start
  \/ Run_Wait
  \/ Run_Shutdown
  \/ Run_Deferred

\* ---------------------------------------------------------------- environment
\* a key some open transaction holds
AnyUsernameLocked(u) ==
  \E q \in Procs : tx[q].open /\ tx[q].user # None /\ tx[q].user[1].username = u
AnyTokenLocked(s) ==
  \E q \in Procs : tx[q].open /\ tx[q].token # None /\ tx[q].token[1].token = s

\* cmd/create-staff-user: creates a staff user and its token without an
\* actor, run to completion out of band
Bootstrap(u, s) ==
  /\ calls < MaxCalls
  /\ ~UsernameTaken(u) /\ ~AnyUsernameLocked(u)
  /\ ~TokenTaken(s) /\ ~AnyTokenLocked(s)
  /\ calls' = calls + 1
  /\ users' = users \cup {UserRow(NewUserID(calls + 1), u, TRUE)}
  /\ user_tokens' = user_tokens \cup
       {TokenRow(NewTokenID(calls + 1), NewUserID(calls + 1), s, "Default Token", None)}
  /\ UNCHANGED <<now, faults, impl, pc, req, tx, loc, out, ops, logged, pool, srv, seen>>

\* Querier.CreateToken on the pool: INSERT INTO user_tokens ... (autocommit)
QCreateToken(uid, s, e) ==
  /\ calls < MaxCalls
  /\ \E u \in users : u.id = uid
  /\ ~TokenTaken(s) /\ ~AnyTokenLocked(s)
  /\ calls' = calls + 1
  /\ user_tokens' = user_tokens \cup {TokenRow(NewTokenID(calls + 1), uid, s, "extra", e)}
  /\ UNCHANGED <<users, now, faults, impl, pc, req, tx, loc, out, ops, logged, pool, srv, seen>>

\* a delete against a schema whose foreign key does not cascade (and is not
\* enforced)
QDeleteUserWithoutCascade(uid) ==
  /\ \E u \in users : u.id = uid
  /\ users' = {u \in users : u.id # uid}
  /\ UNCHANGED <<user_tokens, now, calls, faults, impl, pc, req, tx, loc, out, ops, logged, pool, srv, seen>>

\* Querier.DeleteUser on the pool: DELETE FROM users WHERE id = $1, with
\* user_tokens.user_id ... ON DELETE CASCADE
QDeleteUser(uid) ==
  /\ \E u \in users : u.id = uid
  /\ users' = {u \in users : u.id # uid}
  /\ user_tokens' = {t \in user_tokens : t.user_id # uid}
  /\ UNCHANGED <<now, calls, faults, impl, pc, req, tx, loc, out, ops, logged, pool, srv, seen>>

\* time passes
Tick ==
  /\ now < MaxTime
  /\ now' = now + 1
  /\ UNCHANGED <<users, user_tokens, calls, faults, impl, pc, req, tx, loc, out, ops, logged, pool, srv, seen>>

\* ---------------------------------------------------------------- specifications
\* the steps of Transaction with CreateUser's unit of work
TransactionSteps(p) ==
  \/ Transaction_Begin(p)
  \/ Fn_CreateUser(p)
  \/ Fn_CreateToken(p)
  \/ Transaction_Commit(p)
  \/ Transaction_Deferred(p)

\* no other task is serving a request
Alone(p) == \A q \in Procs \ {p} : pc[q] = "idle"

\* direct calls of CreateUser and of Transaction, one at a time, every actor
\* and every parameter
Next ==
  \E p \in Procs :
    \/ \E a \in Actors, u \in Usernames, s \in BOOLEAN :
         Alone(p) /\ CallCreateUser(p, a, u, s)
    \/ \E u \in Usernames : Alone(p) /\ CallTransactionTest(p, u)
    \/ TransactionSteps(p)
    \/ Reset(p)

Spec == Init /\ [][Next]_vars

\* concurrent calls of CreateUser by a staff actor, one call per task, their
\* store steps interleaved in every order
NextConc ==
  \E p \in Procs :
    \/ \E u \in Usernames : CallCreateUser(p, Some(staffUser), u, FALSE)
    \/ TransactionSteps(p)

SpecConc == Init /\ [][NextConc]_vars

\* HTTP requests through AuthMiddleware, one at a time, over a store that the
\* bootstrap command, token administration, user deletion and time change
NextGate ==
  \/ \E p \in Procs :
       \/ \E h \in Headers : Alone(p) /\ StartRequest(p, h, "set")
       \/ AuthMiddleware(p)
       \/ \E u \in Usernames, s \in BOOLEAN : Handler(p, u, s)
       \/ TransactionSteps(p)
       \/ Reset(p)
  \/ \E u \in Usernames, s \in Secrets : Bootstrap(u, s)
  \/ \E uid \in {u.id : u \in users}, s \in Secrets,
        e \in {None} \cup {Some(t) : t \in Times} :
       QCreateToken(uid, s, e)
  \/ \E uid \in {u.id : u \in users} : QDeleteUser(uid)
  \/ Tick

\* the service as the API server builds it: PgxDBService
InitGate == Init /\ impl = "committedFlag"

SpecGate == InitGate /\ [][NextGate]_vars

\* the Authorization headers of the middleware's own tests and more: also a
\* stored credential under another scheme or under a lower-case scheme
MwHeaders ==
  Headers \cup {<<scheme, s>> : scheme \in {"Basic ", "bearer "}, s \in Secrets}

\* HTTP requests through an AuthMiddleware built with any querier, in front
\* of a handler that reads the user of the context, one at a time, over a
\* store that the bootstrap command, token administration, user deletion and
\* time change
NextMw ==
  \/ \E p \in Procs :
       \/ \E h \in MwHeaders, querier \in Queriers : Alone(p) /\ StartRequest(p, h, querier)
       \/ AuthMiddleware(p)
       \/ NextHandler_ServeHTTP(p)
       \/ Reset(p)
  \/ \E u \in Usernames, s \in Secrets : Bootstrap(u, s)
  \/ \E uid \in {u.id : u \in users}, s \in Secrets,
        e \in {None} \cup {Some(t) : t \in Times} :
       QCreateToken(uid, s, e)
  \/ \E uid \in {u.id : u \in users} : QDeleteUser(uid)
  \/ Tick

SpecMw == InitGate /\ [][NextMw]_vars

\* TestDatabaseService_Close and the concurrent health checks: tasks call
\* HealthCheck on a created service of either kind while its owner calls
\* Close
NextLife ==
  \/ \E p \in Procs :
       \/ \E d \in BOOLEAN : CallHealthCheck(p, d)
       \/ HealthCheck_Ping(p)
       \/ Reset(p)
  \/ CallClose

SpecLife == Init /\ [][NextLife]_vars

\* the headers of requests that carry no stored credential
AnonymousHeaders == {<<>>, <<"Bearer ", BogusSecret>>}

\* the API server process from main to the return of run(): its start, the
\* listener goroutine, the shutdown signal at any moment, and meanwhile
\* requests that the listener accepts and the handler chain serves
NextRun ==
  \/ RunSteps
  \/ Signal
  \/ \E p \in Procs :
       \/ \E h \in AnonymousHeaders :
            srv.listen = "serving" /\ Server_ServeHTTP(p, "facilities_list", h)
       \/ AuthMiddleware(p)
       \/ Reset(p)

\* run() and its goroutine keep running; a signal may never come
SpecRun == InitGate /\ [][NextRun]_vars /\ WF_vars(RunSteps)

\* requests to RecoveryMiddleware around every handler, one at a time
NextRecovery ==
  \E p \in Procs :
    \/ \E h \in Handlers : Alone(p) /\ CallRecovery(p, h)
    \/ Handler_Step(p)
    \/ RecoveryMiddleware_Deferred(p)
    \/ Reset(p)

SpecRecovery == InitGate /\ [][NextRecovery]_vars

\* requests to the handler chain of the API server, one at a time, over a
\* store in which the bootstrap command creates staff users
NextServer ==
  \/ \E p \in Procs :
       \/ \E route \in Routes, h \in Headers : Alone(p) /\ Server_ServeHTTP(p, route, h)
       \/ AuthMiddleware(p)
       \/ \E h \in ServerHandlers : APIServer(p, h)
       \/ Handler_Step(p)
       \/ RecoveryMiddleware_Deferred(p)
       \/ Reset(p)
  \/ \E u \in Usernames, s \in Secrets : Bootstrap(u, s)

SpecServer == InitGate /\ [][NextServer]_vars

\* direct calls of GetAuthenticatedUser with any querier and any token string,
\* one at a time, over a store that the bootstrap command, token
\* administration, user deletion and time change
NextAuth ==
  \/ \E p \in Procs :
       \/ \E querier \in Queriers, k \in TokenStrings :
            Alone(p) /\ CallGetAuthenticatedUser(p, querier, k)
       \/ Reset(p)
  \/ \E u \in Usernames, s \in Secrets : Bootstrap(u, s)
  \/ \E uid \in {u.id : u \in users}, s \in Secrets,
        e \in {None} \cup {Some(t) : t \in Times} :
       QCreateToken(uid, s, e)
  \/ \E uid \in {u.id : u \in users} : QDeleteUser(uid)
  \/ Tick

SpecAuth == InitGate /\ [][NextAuth]_vars

\* CreateUser by a staff actor followed by GetAuthenticatedUser with any
\* token string, direct calls one at a time, while users are deleted and time
\* passes
NextRound ==
  \/ \E p \in Procs :
       \/ \E u \in Usernames, s \in BOOLEAN :
            Alone(p) /\ CallCreateUser(p, Some(staffUser), u, s)
       \/ \E k \in TokenStrings : Alone(p) /\ CallGetAuthenticatedUser(p, "set", k)
       \/ TransactionSteps(p)
       \/ Reset(p)
  \/ \E uid \in {u.id : u \in users} : QDeleteUser(uid)
  \/ Tick

SpecRound == InitGate /\ [][NextRound]_vars

\* concurrent calls of CreateUser by a staff actor, one call per task, in
\* which the random source can fail, with either variant of Transaction
NextPanic ==
  \E p \in Procs :
    \/ \E u \in Usernames : CallCreateUser(p, Some(staffUser), u, FALSE)
    \/ TransactionSteps(p)
    \/ Fn_GenerateTokenPanics(p)

SpecPanic == Init /\ [][NextPanic]_vars

\* concurrent calls of CreateUser whose ctx can be cancelled at any point
\* between begin and commit; the goroutine of a call keeps running and every
\* store call returns
NextCancel ==
  \E p \in Procs :
    \/ \E u \in Usernames : CallCreateUser(p, Some(staffUser), u, FALSE)
    \/ TransactionSteps(p)
    \/ Cancel(p)

SpecCancel ==
  InitGate /\ [][NextCancel]_vars /\ \A p \in Procs : WF_vars(TransactionSteps(p))

\* ---------------------------------------------------------------- claims
\* the store calls task p has issued
Issued(p) == {ops[p][i] : i \in 1..Len(ops[p])}
\* rows that the call of task p wrote, if visible
VisibleUserOf(p) == {r \in users : r.id = NewUserID(loc[p].callNo)}
VisibleTokenOf(p) == {t \in user_tokens : t.id = NewTokenID(loc[p].callNo)}

\* C1: atomicity of CreateUser.  In every reachable state, under every
\* interleaving and every injected failure: a user row is visible only
\* together with the token row of the same call and the other way round; a
\* call that has not committed shows neither row; a call that returned an
\* error shows neither row.
C1_Atomicity ==
  /\ \A r \in users :
       \E t \in user_tokens : t.user_id = r.id /\ t.id = r.id + 1
  /\ \A t \in user_tokens :
       \E r \in users : t.user_id = r.id /\ t.id = r.id + 1
  /\ \A p \in Procs :
       /\ (~loc[p].committed) => VisibleUserOf(p) = {} /\ VisibleTokenOf(p) = {}
       /\ (pc[p] = "done" /\ out[p].err # NoErr) =>
             VisibleUserOf(p) = {} /\ VisibleTokenOf(p) = {}

\* a call failed after its user insert had succeeded, beside a committed user
C1_Witness ==
  \E p \in Procs :
    /\ pc[p] = "done"
    /\ out[p].err # NoErr
    /\ "createToken" \in Issued(p)
    /\ users # {}

\* fn of task p wrote a row and then returned an error
FnWroteThenFailed(p) ==
  /\ pc[p] = "done"
  /\ out[p].returned
  /\ loc[p].err # NoErr
  /\ "commit" \notin Issued(p)
  /\ IF req[p].kind = "txtest" THEN "createUser" \in Issued(p)
     ELSE "createToken" \in Issued(p)

\* C2: Transaction(ctx, fn).  When fn has written and then returned an error
\* e, after Transaction returned none of fn's rows is visible or pending and
\* the error Transaction returned is e itself (for the test's unit of work,
\* intentionalErr; errors.Is holds also through DataStore.Transaction and
\* CreateUser); when fn returned nil and the commit succeeded, the rows fn
\* wrote are visible.
C2_TransactionRollback ==
  \A p \in Procs :
    /\ FnWroteThenFailed(p) =>
          /\ out[p].txErr = loc[p].err
          /\ ErrorsIs(out[p].txErr, loc[p].err)
          /\ req[p].kind = "txtest" => ErrorsIs(out[p].txErr, intentionalErr)
          /\ req[p].kind = "create" => ErrorsIs(out[p].err, loc[p].err)
          /\ VisibleUserOf(p) = {} /\ VisibleTokenOf(p) = {}
          /\ tx[p].user = None /\ tx[p].token = None
    /\ (out[p].returned /\ "begin" \in Issued(p) /\ out[p].txErr = NoErr) =>
          /\ loc[p].committed
          /\ loc[p].result # None
          /\ loc[p].result[1].User \in users
          /\ loc[p].result[1].Token \in user_tokens

\* the test's unit of work inserted a user, returned intentionalErr, and the
\* rollback itself failed
C2_Witness ==
  \E p \in Procs :
    /\ FnWroteThenFailed(p)
    /\ req[p].kind = "txtest"
    /\ ErrorsIs(out[p].txErr, intentionalErr)
    /\ logged[p] = <<ConnFailure>>

\* task p takes a step
Steps(p) == pc'[p] # pc[p]
\* the request of task p has reached the store through CreateUser
InCreateUser(p) ==
  \/ pc[p] \in {"begin", "createUser", "createToken", "commit", "deferred"}
  \/ ops[p] # <<>> /\ ops[p] # <<"getUserByToken">>
  \/ tx[p].open
\* the token of the request resolves, in the current store, to a user row
\* with the elevated flag
ResolvesToStaff(h) ==
  /\ extractBearerToken(h).err = NoErr
  /\ \E r \in GetUserByToken(extractBearerToken(h).token) : r.is_staff

\* C3: privilege safety of the flow request -> AuthMiddleware -> CreateUser
\* with the actor the middleware put in the context.  After every step: a
\* request that is inside CreateUser's transaction passed the middleware with
\* an actor that has IsStaff.  In every step: the middleware passes an actor
\* with IsStaff only if the request's token resolves to a staff user row at
\* that moment; a task changes users or user_tokens only for a request whose
\* actor has IsStaff, and then only by adding the rows of its call.  (Rows
\* added by the bootstrap command and by token administration are steps of no
\* request task.)
C3_PrivilegeSafety ==
  [][\A p \in Procs :
       /\ InCreateUser(p)' =>
             /\ out'[p].next
             /\ req'[p].actor # None
             /\ req'[p].actor[1].IsStaff
       /\ (pc[p] = "auth" /\ pc'[p] = "handler" /\ req'[p].actor[1].IsStaff) =>
             ResolvesToStaff(req[p].header)
       /\ (pc[p] = "auth" /\ pc'[p] = "handler") =>
             GetUserByToken(extractBearerToken(req[p].header).token) # {}
       /\ (Steps(p) /\ (users' # users \/ user_tokens' # user_tokens)) =>
             /\ out[p].next
             /\ req[p].actor # None
             /\ req[p].actor[1].IsStaff
             /\ users' = users \cup VisibleUserOf(p)'
             /\ user_tokens' = user_tokens \cup VisibleTokenOf(p)'
  ]_vars

\* a request bearing the token of a non-staff user passed the middleware,
\* called CreateUser and was turned away, beside a request of a staff user
\* that had created that non-staff user
C3_Witness ==
  \E p \in Procs :
    /\ req[p].kind = "api"
    /\ pc[p] = "done"
    /\ out[p].next
    /\ req[p].actor # None
    /\ ~req[p].actor[1].IsStaff
    /\ out[p].err # NoErr
    /\ ops[p] = <<"getUserByToken">>
    /\ \E r \in users : ~r.is_staff

\* the error CreateUser returns for a rejection with the given message
Rejection(msg) == <<"CreateUser(ctx, ds, user, params)", msg>>
\* the message at the root of an error
RootMessage(err) == err[Len(err)]

\* C4: authorization gating of CreateUser.  A call with a nil actor has
\* returned a nil result and the error "authenticated user is required"; a
\* call with an actor without IsStaff has returned a nil result and the error
\* "only staff users can create new users"; the two errors differ; a call
\* with a staff actor never returns either of them and goes on to the
\* transaction.
C4_AuthorizationGating ==
  /\ Rejection("authenticated user is required")
       # Rejection("only staff users can create new users")
  /\ \A p \in Procs :
       req[p].kind = "create" =>
         /\ req[p].actor = None =>
               /\ pc[p] = "done" /\ out[p].returned
               /\ out[p].result = None
               /\ out[p].err = Rejection("authenticated user is required")
         /\ (req[p].actor # None /\ ~req[p].actor[1].IsStaff) =>
               /\ pc[p] = "done" /\ out[p].returned
               /\ out[p].result = None
               /\ out[p].err = Rejection("only staff users can create new users")
         /\ (req[p].actor # None /\ req[p].actor[1].IsStaff) =>
               /\ "begin" \in Issued(p) \/ pc[p] = "begin"
               /\ out[p].err # NoErr =>
                     RootMessage(out[p].err) \notin
                       {"authenticated user is required",
                        "only staff users can create new users"}

\* a call with a non-staff actor was rejected
C4_Witness ==
  \E p \in Procs :
    /\ req[p].kind = "create"
    /\ pc[p] = "done"
    /\ req[p].actor = Some(nonStaffUser)
    /\ out[p].result = None
    /\ out[p].err = Rejection("only staff users can create new users")

\* the call of task p was turned away by the validation of the actor
Rejected(p) ==
  /\ req[p].kind = "create"
  /\ pc[p] = "done"
  /\ Authorize(req[p].actor) # NoErr

\* C5: fail-fast authorization.  The step in which CreateUser rejects a nil
\* or non-staff actor issues no store call (no begin, insert, commit or
\* rollback), opens no transaction, and leaves users, user_tokens, every
\* task's transaction and the log as they were; a rejected call has issued
\* no store call at all.
C5_FailFast ==
  [][\A p \in Procs :
       Rejected(p)' =>
         /\ ops'[p] = <<>>
         /\ ~tx'[p].open /\ ~tx'[p].closed
         /\ logged'[p] = <<>>
         /\ (~Rejected(p)) =>
               /\ users' = users
               /\ user_tokens' = user_tokens
               /\ tx' = tx
               /\ faults' = faults
  ]_vars

\* a call with a nil actor was rejected over a store that holds a user
C5_Witness ==
  \E p \in Procs :
    /\ Rejected(p)
    /\ req[p].actor = None
    /\ out[p].returned
    /\ ops[p] = <<>>
    /\ users # {}

\* the calls of CreateUser for username u
CallsFor(u) == {p \in Procs : req[p].kind = "create" /\ req[p].username = u}
\* the call of task p ended on an infrastructure failure or on a collision of
\* generated token values
HitOtherFailure(p) ==
  /\ out[p].err # NoErr
  /\ RootMessage(out[p].err) \in {ConnFailure, UniqueToken}
\* the returned error carries the violation of users_username_key
IsDuplicateUsername(err) == err # NoErr /\ RootMessage(err) = UniqueUsername
\* the returned error carries any other failure of the store
IsStoreUnavailable(err) ==
  err # NoErr /\ RootMessage(err) \in {ConnFailure, UniqueToken}

\* C6: concurrent calls of CreateUser with one username.  Whenever two or
\* more calls with the same username, interleaved in any order, have all
\* returned and none of them ended on an infrastructure failure or a token
\* collision: exactly one returned without error, every other returned the
\* violation of users_username_key from its user insert, and the store holds
\* exactly one user row with that username and exactly one token row for it.
C6_OneWinner ==
  \A u \in Usernames :
    (/\ Cardinality(CallsFor(u)) >= 2
     /\ \A p \in CallsFor(u) : pc[p] = "done" /\ ~HitOtherFailure(p)) =>
       /\ Cardinality({p \in CallsFor(u) : out[p].err = NoErr}) = 1
       /\ \A p \in CallsFor(u) :
            out[p].err # NoErr =>
              /\ IsDuplicateUsername(out[p].err)
              /\ ops[p] = <<"begin", "createUser", "rollback">>
              /\ out[p].result = None
       /\ Cardinality({r \in users : r.username = u}) = 1
       /\ Cardinality({t \in user_tokens :
                         \E r \in users : r.username = u /\ t.user_id = r.id}) = 1

\* two calls with one username have returned, and the call that started
\* first lost the race
C6_Witness ==
  \E p, q \in Procs :
    /\ p # q
    /\ req[p].kind = "create" /\ req[q].kind = "create"
    /\ req[p].username = req[q].username
    /\ pc[p] = "done" /\ pc[q] = "done"
    /\ loc[p].callNo < loc[q].callNo
    /\ IsDuplicateUsername(out[p].err)
    /\ out[q].err = NoErr

\* the call of task p, by a staff actor, names a username of a committed user
Duplicate(p) ==
  /\ req[p].kind = "create"
  /\ Authorize(req[p].actor) = NoErr
  /\ \E r \in users : r.username = req[p].username /\ r.id # NewUserID(loc[p].callNo)

\* C7: CreateUser with a username of a committed user.  No step of such a
\* call changes users or user_tokens; the call never gets past the user
\* insert (no token insert, no commit, no pending row); it returns a nil
\* result and an error, and when the store answered the insert the error is
\* "failed to create user" wrapping the violation of users_username_key.
C7_DuplicateUsername ==
  [][\A p \in Procs :
       /\ (Duplicate(p) /\ Steps(p)) =>
             /\ users' = users
             /\ user_tokens' = user_tokens
       /\ Duplicate(p)' =>
             /\ pc'[p] \notin {"createToken", "commit"}
             /\ Issued(p)' \cap {"createToken", "commit"} = {}
             /\ tx'[p].user = None /\ tx'[p].token = None
             /\ VisibleUserOf(p)' = {} /\ VisibleTokenOf(p)' = {}
             /\ pc'[p] = "done" =>
                   /\ out'[p].err # NoErr
                   /\ out'[p].result = None
                   /\ (~HitOtherFailure(p)') =>
                         /\ ops'[p] = <<"begin", "createUser", "rollback">>
                         /\ ErrorsIs(out'[p].err,
                                     <<"failed to create user", UniqueUsername>>)
  ]_vars

\* a call with a taken username failed at its user insert
C7_Witness ==
  \E p \in Procs :
    /\ Duplicate(p)
    /\ pc[p] = "done"
    /\ ops[p] = <<"begin", "createUser", "rollback">>
    /\ ErrorsIs(out[p].err, <<"failed to create user", UniqueUsername>>)
    /\ Cardinality(users) = 1 /\ Cardinality(user_tokens) = 1

\* the call of task p, by a staff actor, has returned a failure of the store
StoreFailure(p) ==
  /\ req[p].kind = "create"
  /\ out[p].returned
  /\ "begin" \in Issued(p)
  /\ out[p].txErr # NoErr \/ out[p].err # NoErr

\* C8: the failures of CreateUser can be told apart from the returned error.
\* Its chain of wrapped causes ends in the violation of users_username_key
\* exactly when the user insert was rejected for a taken username, and in a
\* connection failure or another violation exactly for every other failure
\* (begin, user insert, token insert, commit); each failed call is in exactly
\* one of the two classes, with a nil result; no failure is returned as nil.
C8_FailureOutcomes ==
  \A p \in Procs :
    StoreFailure(p) =>
      /\ out[p].err # NoErr
      /\ out[p].result = None
      /\ ErrorsIs(out[p].err, out[p].txErr)
      /\ IsDuplicateUsername(out[p].err) # IsStoreUnavailable(out[p].err)
      /\ IsDuplicateUsername(out[p].err) <=>
            out[p].txErr = <<"failed to create user", UniqueUsername>>
      /\ IsDuplicateUsername(out[p].err) =>
            /\ UsernameTaken(req[p].username)
            /\ ops[p] = <<"begin", "createUser", "rollback">>
      /\ IsStoreUnavailable(out[p].err) <=>
            \/ out[p].txErr = <<"failed to begin transaction", ConnFailure>>
            \/ out[p].txErr = <<"failed to create user", ConnFailure>>
            \/ out[p].txErr = <<"failed to create token", ConnFailure>>
            \/ out[p].txErr = <<"failed to create token", UniqueToken>>
            \/ out[p].txErr = <<"failed to commit transaction", ConnFailure>>

\* a call failed at its commit, and its error is of the second class
C8_Witness ==
  \E p \in Procs :
    /\ StoreFailure(p)
    /\ "commit" \in Issued(p)
    /\ IsStoreUnavailable(out[p].err)
    /\ ~IsDuplicateUsername(out[p].err)

\* the middleware step of task p looked the extracted token up and the store
\* answered
Lookup(p) ==
  /\ pc[p] = "auth"
  /\ pc'[p] # "auth"
  /\ extractBearerToken(req[p].header).err = NoErr
  /\ faults' = faults
\* token rows with secret k that are valid now
ValidTokens(k) ==
  {t \in user_tokens :
     t.token = k /\ (t.expires_at = None \/ t.expires_at[1] > now)}

\* C9: GetAuthenticatedUser at the moment of the lookup, the store having
\* answered.  The request is passed on with an identity if and only if a
\* token row with the presented secret exists whose expiry is absent or
\* strictly later than the clock; the identity is that of the row's owner;
\* otherwise (no such row, expiry equal to or before the clock) the request
\* ends with 401.  Secrets are unique and every token row has its owner.
C9_Authenticate ==
  [][/\ \A t1, t2 \in user_tokens' : t1.token = t2.token => t1 = t2
     /\ \A t \in user_tokens' : \E u \in users' : u.id = t.user_id
     /\ \A p \in Procs :
          Lookup(p) =>
            LET k == extractBearerToken(req[p].header).token IN
            /\ pc'[p] = "handler" <=> ValidTokens(k) # {}
            /\ pc'[p] = "handler" =>
                  \E t \in ValidTokens(k), u \in users :
                    /\ u.id = t.user_id
                    /\ req'[p].actor =
                         Some(AuthenticatedUser(UUIDString(u.id), u.username, u.is_staff))
                    /\ out'[p].next /\ out'[p].http = 0
            /\ ValidTokens(k) = {} =>
                  /\ pc'[p] = "done"
                  /\ out'[p].http = 401
                  /\ ~out'[p].next
                  /\ req'[p].actor = None
  ]_vars

\* a request was answered 401 although a row with its secret exists: the
\* row's expiry equals the clock
C9_Witness ==
  \E p \in Procs :
    /\ pc[p] = "done"
    /\ out[p].http = 401
    /\ ops[p] = <<"getUserByToken">>
    /\ faults = 0
    /\ \E t \in user_tokens :
         /\ <<"Bearer ", t.token>> = req[p].header
         /\ t.expires_at = Some(now)

\* the secrets a request can present
Presentable == Secrets \cup {BogusSecret}
\* no token row carries secret k
Absent(k) == \A t \in user_tokens : t.token # k
\* a token row carries secret k and has expired
Expired(k) ==
  \E t \in user_tokens :
    t.token = k /\ t.expires_at # None /\ t.expires_at[1] <= now
\* what the caller of the middleware observes of task p
Response(p) == [err |-> out[p].authErr, http |-> out[p].http, body |-> out[p].body]

\* C10: indistinguishability of an absent and an expired secret.  Whenever a
\* lookup rejects a request, the response (error value, status, body) is the
\* one that any secret absent from the store and any secret of an expired
\* token gets in the same store state: the same error value from
\* authenticateToken, status 401, body "Unauthorized".  An expired token is
\* never answered otherwise than an absent one.
C10_Indistinguishable ==
  [][\A p \in Procs :
       Lookup(p) =>
         LET k == extractBearerToken(req[p].header).token IN
         /\ (Absent(k) \/ Expired(k)) => pc'[p] = "done"
         /\ pc'[p] = "done" =>
               \A k2 \in Presentable :
                 (Absent(k2) \/ Expired(k2)) =>
                   Response(p)' =
                     [err |-> authenticateToken("set", QueryUserByToken(k2, "ok")).err,
                      http |-> 401, body |-> "Unauthorized"]
  ]_vars

\* a request with the secret of a token that expired before the lookup was
\* answered as a request with an unknown secret is
C10_Witness ==
  \E p \in Procs :
    /\ pc[p] = "done"
    /\ ops[p] = <<"getUserByToken">>
    /\ faults = 0
    /\ \E t \in user_tokens :
         /\ <<"Bearer ", t.token>> = req[p].header
         /\ t.expires_at # None
         /\ t.expires_at[1] < now
    /\ Absent(BogusSecret)
    /\ Response(p) =
         [err |-> authenticateToken("set", QueryUserByToken(BogusSecret, "ok")).err,
          http |-> 401, body |-> "Unauthorized"]

\* the error GetAuthenticatedUser returns for an unknown or expired token
InvalidOrExpiredToken ==
  <<"GetAuthenticatedUser(ctx, querier, token)", "invalid or expired token">>

\* C11: GetAuthenticatedUser with an empty token string returns an error
\* that differs from the one for an unknown or expired token, and returns it
\* without having issued the lookup: the store is never queried with an empty
\* secret.
C11_EmptyToken ==
  \A p \in Procs :
    (req[p].kind = "authn" /\ pc[p] = "done"
       /\ req[p].querier = "set" /\ req[p].token = "") =>
      /\ out[p].authErr # NoErr
      /\ out[p].authErr # InvalidOrExpiredToken
      /\ ops[p] = <<>>

\* what GetAuthenticatedUser returns for token k when the store answers
Authenticate(k) == GetAuthenticatedUser("set", QueryUserByToken(k, "ok"))
\* the identity of a user row
IdentityOf(u) == AuthenticatedUser(UUIDString(u.id), u.username, u.is_staff)

\* C12: round trip CreateUser -> GetAuthenticatedUser.  In the step in which
\* CreateUser(staff, u, e) returns (User, Token) without error,
\* GetAuthenticatedUser(Token.token) succeeds with the identity
\* {User.id, u, e}; in every later step a token issued by CreateUser keeps
\* resolving to its owner's identity as long as the owner's row is not
\* deleted, whatever the clock; and a call of GetAuthenticatedUser with such
\* a token, answered by the store, returns exactly that identity.
C12_RoundTrip ==
  [][/\ \A p \in Procs :
          (req[p].kind = "create" /\ pc[p] = "deferred" /\ pc'[p] = "done"
             /\ out'[p].err = NoErr) =>
            /\ loc[p].result # None
            /\ out'[p].result = loc[p].result
            /\ LET r == loc[p].result[1] IN
               /\ r.User.username = req[p].username
               /\ r.User.is_staff = req[p].is_staff
               /\ r.User \in users' =>
                    Authenticate(r.Token.token)' =
                      [user |-> Some(AuthenticatedUser(UUIDString(r.User.id),
                                                       req[p].username, req[p].is_staff)),
                       err |-> NoErr]
     /\ \A t \in user_tokens : \A u \in users :
          (t.name = "Default Token" /\ t.user_id = u.id /\ u \in users') =>
            Authenticate(t.token)' = [user |-> Some(IdentityOf(u)), err |-> NoErr]
     /\ \A p \in Procs :
          (pc[p] = "idle" /\ req'[p].kind = "authn" /\ faults' = faults) =>
            \A t \in user_tokens : \A u \in users :
              (t.name = "Default Token" /\ t.user_id = u.id
                 /\ t.token = req'[p].token) =>
                /\ out'[p].result = Some(IdentityOf(u))
                /\ out'[p].authErr = NoErr
  ]_vars

\* after the clock has advanced, GetAuthenticatedUser returned the identity
\* of a staff user that an earlier CreateUser had issued
C12_Witness ==
  \E p \in Procs :
    /\ req[p].kind = "authn"
    /\ pc[p] = "done"
    /\ now = MaxTime
    /\ out[p].authErr = NoErr
    /\ \E u \in users, t \in user_tokens :
         /\ t.user_id = u.id /\ t.token = req[p].token
         /\ u.is_staff
         /\ out[p].result = Some(IdentityOf(u))

\* the call of task p commits in this step
Commits(p) ==
  /\ req[p].kind = "create"
  /\ pc[p] = "commit"
  /\ loc'[p].committed

\* C13: effect of a successful CreateUser(actor, u, e).  The commit adds
\* exactly one row to users and exactly one row to user_tokens and changes
\* no other row; the user row carries the identifier the call generated,
\* username u and flag e; the token row carries the identifier the call
\* generated, the user's id as user_id, the name "Default Token", no expiry
\* and a secret of 64 characters; the result CreateUser returns is these two
\* rows; a call that returns without error has committed.
C13_Effect ==
  [][\A p \in Procs :
       /\ Commits(p) =>
            \E U \in users' \ users : \E T \in user_tokens' \ user_tokens :
              /\ users' = users \cup {U}
              /\ user_tokens' = user_tokens \cup {T}
              /\ U = UserRow(NewUserID(loc[p].callNo), req[p].username, req[p].is_staff)
              /\ T.id = NewTokenID(loc[p].callNo)
              /\ T.user_id = U.id
              /\ T.name = "Default Token"
              /\ T.expires_at = None
              /\ T.token # ""
              /\ Len(T.token) = 64
              /\ loc[p].result = Some([User |-> U, Token |-> T])
       /\ (req[p].kind = "create" /\ pc[p] = "deferred" /\ pc'[p] = "done"
             /\ out'[p].err = NoErr) =>
            /\ loc[p].committed
            /\ out'[p].result = loc[p].result
            /\ users' = users /\ user_tokens' = user_tokens
  ]_vars

\* a call for a staff user returned its two rows, both in the store, beside
\* the rows of an earlier call
C13_Witness ==
  \E p \in Procs :
    /\ req[p].kind = "create"
    /\ pc[p] = "done"
    /\ out[p].err = NoErr
    /\ req[p].is_staff
    /\ out[p].result # None
    /\ out[p].result[1].User \in users
    /\ out[p].result[1].Token \in user_tokens
    /\ Len(out[p].result[1].Token.token) = 64
    /\ Cardinality(users) = 2

\* the rejection GetAuthenticatedUser returns
RejectedToken == [user |-> None, err |-> InvalidOrExpiredToken]

C15_Uniqueness ==
  /\ \A r1, r2 \in users :
       (r1.username = r2.username \/ r1.id = r2.id) => r1 = r2
  /\ \A t1, t2 \in user_tokens :
       (t1.token = t2.token \/ t1.id = t2.id) => t1 = t2
  /\ \A t \in user_tokens : \E r \in users : r.id = t.user_id

\* two calls for different usernames generated the same token value; one
\* committed, the other was aborted by user_tokens_token_key
C15_Witness ==
  \E p, q \in Procs :
    /\ pc[p] = "done" /\ pc[q] = "done"
    /\ req[p].username # req[q].username
    /\ out[p].err = NoErr
    /\ out[q].err # NoErr
    /\ RootMessage(out[q].err) = UniqueToken
    /\ Cardinality(users) = 1
    /\ Cardinality(user_tokens) = 1

\* the cancelled call of task p has returned
CancelledAndReturned(p) == loc[p].ctxDone /\ pc[p] = "done"

\* C16: cancellation.  Once the ctx of a CreateUser call is done between
\* begin and commit, the call eventually returns with its transaction
\* closed; when it has returned, no transaction of the call is open and no
\* row of it is pending, the call has issued the rollback (or its commit
\* attempt closed the transaction), it returned an error and a nil result,
\* and neither its user row nor its token row is visible.
C16_Cancellation ==
  /\ [](\A p \in Procs :
          CancelledAndReturned(p) =>
            /\ ~tx[p].open /\ tx[p].closed
            /\ tx[p].user = None /\ tx[p].token = None
            /\ "rollback" \in Issued(p)
            /\ out[p].returned
            /\ out[p].err # NoErr
            /\ out[p].result = None
            /\ VisibleUserOf(p) = {} /\ VisibleTokenOf(p) = {})
  /\ \A p \in Procs : loc[p].ctxDone ~> (pc[p] = "done" /\ ~tx[p].open)

\* a call was cancelled after both inserts had succeeded; its commit
\* returned the ctx error and the call returned it
C16_Witness ==
  \E p \in Procs :
    /\ CancelledAndReturned(p)
    /\ "commit" \in Issued(p)
    /\ RootMessage(out[p].err) = CtxCanceled
    /\ ~tx[p].open

\* the error tx.Rollback(ctx) returned in the deferred step task p takes
RollbackErr(p) ==
  IF tx[p].closed THEN ErrTxClosed
  ELSE IF faults' > faults THEN ConnFailure
  ELSE IF loc[p].ctxDone THEN CtxCanceled
  ELSE "ok"

\* task p runs the deferred function of a Transaction that is about to return
\* the error of fn or of Commit, and the rollback itself fails
RollbackFails(p) ==
  /\ pc[p] = "deferred" /\ pc'[p] = "done"
  /\ loc[p].err # NoErr
  /\ loc[p].unwind = ""
  /\ ops'[p] = Append(ops[p], "rollback")
  /\ RollbackErr(p) # "ok"

\* C17: rollback failure.  When fn or Commit failed with error e and the
\* rollback of the deferred function fails too, Transaction returns e
\* itself, in both variants of Transaction: the returned chain is e, nothing
\* is wrapped around it or put in its place, and CreateUser's error still
\* wraps e and comes with a nil result.  The
\* rollback error is written to the log and nowhere else (the variant with
\* the committed flag does not log pgx.ErrTxClosed, the rollback error that
\* follows a failed Commit).
C17_RollbackFailure ==
  [][\A p \in Procs :
       RollbackFails(p) =>
         /\ out'[p].returned
         /\ out'[p].txErr = loc[p].err
         /\ req[p].kind = "create" =>
              /\ ErrorsIs(out'[p].err, loc[p].err)
              /\ out'[p].result = None
         /\ logged'[p] =
              IF impl = "committedFlag" /\ RollbackErr(p) = ErrTxClosed
              THEN logged[p]
              ELSE Append(logged[p], RollbackErr(p))]_vars

\* CreateUser's insert of the token failed on a duplicate key, the rollback
\* was lost with the connection, and the call returned the insert's error
C17_Witness ==
  \E p \in Procs :
    /\ pc[p] = "done"
    /\ req[p].kind = "create"
    /\ out[p].returned
    /\ logged[p] = <<ConnFailure>>
    /\ out[p].txErr = loc[p].err
    /\ RootMessage(out[p].err) \in {UniqueUsername, UniqueToken}

\* the Authorization header h starts with "Bearer " and something follows
BearerWithToken(h) == Len(h) = 2 /\ h[1] = "Bearer " /\ h[2] # ""

\* the lookup the middleware of task p makes in this step returns a row: it
\* is made, the store answers, and a token row with the credential exists
\* that has not expired
LookupSucceeds(p) ==
  /\ ops'[p] = Append(ops[p], "getUserByToken")
  /\ faults' = faults
  /\ \E t \in user_tokens :
       /\ t.token = req[p].header[2]
       /\ (t.expires_at = None \/ t.expires_at[1] > now)
       /\ \E u \in users : u.id = t.user_id

\* the middleware of task p lets the request through in this step
Admits(p) ==
  /\ BearerWithToken(req[p].header)
  /\ req[p].querier # "nil"
  /\ LookupSucceeds(p)

\* C18: the gate of AuthMiddleware.  In the step in which the middleware of
\* a request decides, next is invoked if and only if the header starts with
\* "Bearer ", the remainder is not empty, the querier is not nil and the
\* lookup returns a row without error.  Then the user of the request context
\* has the ID, Username and IsStaff of the row the token resolves to.  In
\* every other case the response is 401 "Unauthorized", the request is over
\* and next is not invoked; next is invoked in no other step.
C18_Gate ==
  [][\A p \in Procs :
       /\ (pc[p] = "auth" /\ pc'[p] # "auth") =>
            /\ out'[p].next <=> Admits(p)
            /\ Admits(p) =>
                 /\ pc'[p] = "handler"
                 /\ out'[p].http = 0
                 /\ \E u \in users :
                      /\ \E t \in user_tokens :
                           t.user_id = u.id /\ t.token = req[p].header[2]
                      /\ req'[p].actor =
                           Some([ID |-> UUIDString(u.id), Username |-> u.username,
                                 IsStaff |-> u.is_staff])
            /\ ~Admits(p) =>
                 /\ pc'[p] = "done"
                 /\ out'[p].http = 401 /\ out'[p].body = "Unauthorized"
                 /\ req'[p].actor = None
       /\ (out'[p].next /\ ~out[p].next) => pc[p] = "auth"
       /\ pc'[p] = "handler" => out'[p].next]_vars

\* a request with the credential of a stored user went through the
\* middleware after one lookup, and the next handler found that user in the
\* context of the request
C18_Witness ==
  \E p \in Procs :
    /\ pc[p] = "done"
    /\ BearerWithToken(req[p].header)
    /\ ops[p] = <<"getUserByToken">>
    /\ out[p].next
    /\ out[p].http = 200
    /\ \E u \in users :
         out[p].result = Some(AuthenticatedUser(UUIDString(u.id), u.username, u.is_staff))

\* C19: the public facility listing.  Through the handler chain of the API
\* server, a request for the listing operation without an Authorization
\* header is handed to the API handler and is not answered with 401.
C19_PublicListing ==
  \A p \in Procs :
    (/\ req[p].kind = "api"
     /\ req[p].route = "facilities_list"
     /\ req[p].header = <<>>
     /\ pc[p] = "done") =>
       /\ out[p].next
       /\ Code(out[p]) # 401

\* s contains sub
Contains(s, sub) ==
  \E i \in 1..(Len(s) - Len(sub) + 1) : SubSeq(s, i, i + Len(sub) - 1) = sub

\* what the handler h writes when nothing wraps it, up to its panic
RECURSIVE HandlerWrites(_, _)
HandlerWrites(h, o) ==
  IF h = <<>> \/ Head(h).op = "panic" THEN o
  ELSE HandlerWrites(Tail(h),
                     IF Head(h).op = "WriteHeader" THEN WriteHeader(o, Head(h).code)
                     ELSE Write(o, Head(h).data))

\* C20: RecoveryMiddleware.  When the request to RecoveryMiddleware(h) is
\* over: if h panicked, the panic has been recovered, the status is 500 and
\* the body contains "Internal Server Error"; if h did not panic, status and
\* body are those h writes on its own.
C20_Recovery ==
  \A p \in Procs :
    (req[p].kind = "recovery" /\ pc[p] = "done") =>
      IF Panics(req[p].prog)
      THEN /\ loc[p].unwind = ""
           /\ Code(out[p]) = 500
           /\ Contains(out[p].body, "Internal Server Error")
      ELSE /\ Code(out[p]) = Code(HandlerWrites(req[p].prog, NoOut))
           /\ out[p].body = HandlerWrites(req[p].prog, NoOut).body

\* the HealthCheck of task p has returned
HealthChecked(p) == req[p].kind = "health" /\ pc[p] = "done"

\* C21: lifecycle of the database service.  A HealthCheck with a live ctx on
\* a service on which Close was never called, the store being reachable,
\* returns nil; a HealthCheck that was called after a Close had returned
\* returns an error.
C21_Lifecycle ==
  \A p \in Procs :
    HealthChecked(p) =>
      /\ (pool.closes = 0 /\ ~loc[p].ctxDone /\ faults = 0) => out[p].err = NoErr
      /\ req[p].afterClose => out[p].err # NoErr

\* how often e occurs in the sequence seq
Count(seq, e) == Cardinality({i \in 1..Len(seq) : seq[i] = e})
\* the first position of e in seq
IndexOf(seq, e) == CHOOSE i \in 1..Len(seq) : seq[i] = e /\ \A j \in 1..(i - 1) : seq[j] # e

\* C22: shutdown of the API server.  When run() has taken the signal at
\* <-ctx.Done() and calls server.Shutdown, the pool has not been closed;
\* Shutdown returns, with nil or with the error of its timeout; db.Close()
\* is called only after it.  When run() has returned after the database
\* service was created, on whichever path (server construction failed,
\* Shutdown returned nil, Shutdown timed out), Close was called exactly once,
\* as the last thing, and the pool is closed; Close is never called twice.
C22_Shutdown ==
  /\ pool.closes <= 1
  /\ srv.pc \in {"wait", "shutdown"} => pool.closes = 0 /\ ~pool.closed
  /\ "shutdown" \in Range(srv.events) =>
       /\ srv.signal
       /\ srv.ret # None
       /\ Count(srv.events, "shutdown") = 1
       /\ "close" \in Range(srv.events) =>
            IndexOf(srv.events, "shutdown") < IndexOf(srv.events, "close")
  /\ (srv.pc = "returned" /\ srv.listen # "none") => "shutdown" \in Range(srv.events)
  /\ (srv.pc = "returned" /\ "newdb" \in Range(srv.events)) =>
       /\ Count(srv.events, "close") = 1
       /\ srv.events[Len(srv.events)] = "close"
       /\ pool.closed /\ pool.closes = 1
       /\ srv.ret # None

\* the signal came while a request was in flight; Shutdown ran into its
\* timeout, and run() returned that error after closing the pool
C22_Witness ==
  /\ srv.pc = "returned"
  /\ srv.signal
  /\ InFlight
  /\ srv.ret # None /\ srv.ret # Some(NoErr)
  /\ RootMessage(srv.ret[1]) = "context deadline exceeded"
  /\ pool.closed
  /\ Count(srv.events, "shutdown") = 1

\* C30: failure to start the server.  When ListenAndServe has returned an
\* error other than ErrServerClosed, run() eventually returns, whether or not
\* a shutdown signal ever arrives, and the pool is closed.
C30_StartFailure ==
  srv.listen = "failed" ~> (srv.pc = "returned" /\ pool.closed)

\* the store operations of one CreateUser call, in the order of the code
Protocol == <<"begin", "createUser", "createToken", "commit">>
\* op is a step of the protocol, not the cleanup
IsStep(op) == op # "rollback"
\* the protocol steps task p has issued so far, in order
StepsOf(p) == SelectSeq(ops[p], IsStep)
\* the message of the step that failed in the call of task p, if any
FailedStep(p) ==
  IF out[p].txErr # NoErr /\ Head(out[p].txErr) = "failed to begin transaction"
  THEN "failed to begin transaction"
  ELSE IF loc[p].err # NoErr THEN Head(loc[p].err) ELSE ""

\* C23: step protocol of one CreateUser call.  At every moment the store
\* operations the call has issued are an initial part of begin, insert user,
\* insert token, commit: each at most once, in that order.  After a failed
\* step no further step follows: a failed begin is the only operation, a
\* failed user insert is followed by no token insert, a failed token insert
\* by no commit, a failed commit is not repeated.  The only operation after
\* a failure is the rollback, at most once and last.
C23_StepProtocol ==
  \A p \in Procs :
    req[p].kind = "create" =>
      /\ Len(StepsOf(p)) <= Len(Protocol)
      /\ StepsOf(p) = SubSeq(Protocol, 1, Len(StepsOf(p)))
      /\ Count(ops[p], "rollback") <= 1
      /\ "rollback" \in Range(ops[p]) => ops[p][Len(ops[p])] = "rollback"
      /\ FailedStep(p) = "failed to begin transaction" => ops[p] = <<"begin">>
      /\ FailedStep(p) = "failed to create user" => StepsOf(p) = SubSeq(Protocol, 1, 2)
      /\ FailedStep(p) = "failed to create token" => StepsOf(p) = SubSeq(Protocol, 1, 3)
      /\ FailedStep(p) = "failed to commit transaction" => StepsOf(p) = Protocol
      /\ (pc[p] = "done" /\ out[p].returned /\ out[p].err = NoErr) => StepsOf(p) = Protocol

\* the commit of a call failed after both inserts, and the call returned
\* after the cleanup without issuing anything else
C23_Witness ==
  \E p \in Procs :
    /\ req[p].kind = "create"
    /\ pc[p] = "done"
    /\ FailedStep(p) = "failed to commit transaction"
    /\ ops[p] = <<"begin", "createUser", "createToken", "commit", "rollback">>
    /\ out[p].err # NoErr

\* the root causes the store produces when an operation fails
StoreErrors == {ConnFailure, UniqueUsername, UniqueToken, CtxCanceled, ErrClosedPool}
\* the messages that name the failed step of a transaction
StepMessages ==
  {"failed to begin transaction", "failed to create user", "failed to create token",
   "failed to commit transaction"}

\* the GetAuthenticatedUser call that task p makes in this step meets a
\* failure of the store (not a missing row)
LookupFails(p) ==
  /\ pc[p] = "idle" /\ pc'[p] = "done"
  /\ req'[p].kind = "authn"
  /\ faults' > faults

\* C24: error propagation.  A CreateUser call that failed at a store
\* operation returns an error that starts with the name of the operation,
\* names the failed step, and has the store's error as its root cause, with
\* the error of Transaction in its chain.  A GetAuthenticatedUser call whose
\* lookup failed in the store returns an error that starts with the name of
\* the operation and has the store's error as its root cause.
C24_Propagation ==
  /\ [](\A p \in Procs :
          StoreFailure(p) =>
            /\ out[p].err # NoErr
            /\ Head(out[p].err) = "CreateUser(ctx, ds, user, params)"
            /\ Range(out[p].err) \cap StepMessages # {}
            /\ RootMessage(out[p].err) \in StoreErrors
            /\ ErrorsIs(out[p].err, out[p].txErr))
  /\ [][\A p \in Procs :
          LookupFails(p) =>
            /\ out'[p].authErr # NoErr
            /\ Head(out'[p].authErr) = "GetAuthenticatedUser(ctx, querier, token)"
            /\ ErrorsIs(out'[p].authErr, New(ConnFailure))]_vars

\* the CreateUser call of task p has returned
CreateUserReturned(p) == req[p].kind = "create" /\ pc[p] = "done" /\ out[p].returned

\* C25: CreateUser returns a result or an error, never both and never
\* neither.  When both inserts succeeded, so that the unit of work has
\* assigned the named result, and the commit then failed, the caller gets a
\* nil result and an error, and neither row of the call is visible.
C25_ResultOrError ==
  \A p \in Procs :
    CreateUserReturned(p) =>
      /\ (out[p].result = None) # (out[p].err = NoErr)
      /\ FailedStep(p) = "failed to commit transaction" =>
           /\ loc[p].result # None
           /\ out[p].result = None
           /\ out[p].err # NoErr
           /\ loc[p].result[1].User \notin users
           /\ loc[p].result[1].Token \notin user_tokens
           /\ VisibleUserOf(p) = {} /\ VisibleTokenOf(p) = {}

\* the named result was assigned, the commit failed on a lost connection,
\* and the caller received no result
C25_Witness ==
  \E p \in Procs :
    /\ CreateUserReturned(p)
    /\ FailedStep(p) = "failed to commit transaction"
    /\ RootMessage(out[p].err) = ConnFailure
    /\ loc[p].result # None
    /\ out[p].result = None

\* the unit of work of task p panicked and the panic has left Transaction
PanicLeftTransaction(p) == loc[p].unwind = "panic" /\ pc[p] = "done"

\* C26: panic in the unit of work.  When generateToken panics after the user
\* row was inserted, the deferred function of Transaction runs before the
\* panic leaves it: Rollback is the last store call of the call, the
\* transaction is not open and holds no row, the user row is not visible,
\* nothing was committed, and Transaction did not return a value.
C26_PanicRollback ==
  \A p \in Procs :
    PanicLeftTransaction(p) =>
      /\ ops[p] = <<"begin", "createUser", "rollback">>
      /\ ~tx[p].open /\ tx[p].closed
      /\ tx[p].user = None /\ tx[p].token = None
      /\ VisibleUserOf(p) = {} /\ VisibleTokenOf(p) = {}
      /\ \A u \in users : u.id # NewUserID(loc[p].callNo)
      /\ ~loc[p].committed
      /\ ~out[p].returned

\* two calls ran side by side; one panicked in generateToken and left no
\* row, the other committed its user
C26_Witness ==
  \E p, q \in Procs :
    /\ PanicLeftTransaction(p)
    /\ "rollback" \in Range(ops[p])
    /\ req[q].kind = "create" /\ pc[q] = "done" /\ out[q].err = NoErr
    /\ Cardinality(users) = 1

\* the Commit of task p has succeeded
Committed(p) == req[p].kind = "create" /\ loc[p].committed

\* C27: cleanup after a successful Commit.  From the moment Commit has
\* succeeded, the rows of the call are visible: the deferred function does
\* not remove them, whether it skips the rollback (committed flag) or calls
\* Rollback on the closed transaction, which returns pgx.ErrTxClosed and
\* changes nothing (the variant without the flag writes that error to the
\* log).  Transaction returns nil and CreateUser returns the rows.  No step
\* of any call removes a visible row.
C27_CommitStays ==
  /\ [](\A p \in Procs :
          Committed(p) =>
            /\ loc[p].result # None
            /\ loc[p].result[1].User \in users
            /\ loc[p].result[1].Token \in user_tokens
            /\ loc[p].err = NoErr
            /\ pc[p] = "done" =>
                 /\ out[p].returned
                 /\ out[p].txErr = NoErr /\ out[p].err = NoErr
                 /\ out[p].result = loc[p].result
                 /\ ops[p] = IF impl = "committedFlag" THEN Protocol
                             ELSE Append(Protocol, "rollback")
                 /\ logged[p] = IF impl = "committedFlag" THEN <<>> ELSE <<ErrTxClosed>>)
  /\ [][users \subseteq users' /\ user_tokens \subseteq user_tokens']_vars

\* a call committed under the variant that always calls Rollback, and
\* returned its rows after the rollback had met the closed transaction
C27_Witness ==
  \E p \in Procs :
    /\ Committed(p)
    /\ pc[p] = "done"
    /\ impl = "alwaysRollback"
    /\ ops[p] = Append(Protocol, "rollback")
    /\ out[p].err = NoErr
    /\ out[p].result # None
    /\ out[p].result[1].User \in users

\* the messages of CreateUser's authorization failures
AuthorizationMessages ==
  {"authenticated user is required", "only staff users can create new users"}
\* the request of task p was handed to CreateUser with an actor that has
\* IsStaff
StaffRequest(p) ==
  /\ req[p].kind = "api"
  /\ out[p].next
  /\ pc[p] \notin {"auth", "handler"}
  /\ req[p].actor # None /\ req[p].actor[1].IsStaff
\* the user row of the actor of task p is gone, or its token resolves to
\* nothing any more (deleted, expired)
ActorStale(p) ==
  \/ \A u \in users : UUIDString(u.id) # req[p].actor[1].ID
  \/ GetUserByToken(extractBearerToken(req[p].header).token) = {}

\* C28: authorization from the actor object alone.  A request that was
\* authenticated with IsStaff and handed to CreateUser is authorized whatever
\* happens to the actor's rows afterwards: CreateUser issues no lookup of its
\* own (the only getUserByToken is the middleware's), it never returns an
\* authorization failure, it fails only when a store operation of its
\* transaction fails, and otherwise it commits and returns its rows, also
\* when the actor's user is deleted or its token has expired by then.
C28_ActorSnapshot ==
  \A p \in Procs :
    StaffRequest(p) =>
      /\ Count(ops[p], "getUserByToken") = 1
      /\ Head(ops[p]) = "getUserByToken"
      /\ out[p].err # NoErr =>
           /\ RootMessage(out[p].err) \notin AuthorizationMessages
           /\ RootMessage(out[p].err) \in StoreErrors
           /\ FailedStep(p) \in StepMessages
      /\ (pc[p] = "done" /\ FailedStep(p) = "") =>
           /\ out[p].returned
           /\ out[p].err = NoErr
           /\ out[p].result # None
           /\ loc[p].committed

\* the actor's user was deleted after the middleware had let the request
\* through; CreateUser committed and its rows are visible
C28_Witness ==
  \E p \in Procs :
    /\ StaffRequest(p)
    /\ pc[p] = "done"
    /\ \A u \in users : UUIDString(u.id) # req[p].actor[1].ID
    /\ ActorStale(p)
    /\ out[p].err = NoErr
    /\ out[p].result # None
    /\ out[p].result[1].User \in users
    /\ out[p].result[1].Token \in user_tokens

\* a client outside the tasks calls GetAuthenticatedUser with secret k, the
\* store answers, and the client keeps the identity it was given
ObservedAuthentication(k) ==
  /\ Authenticate(k).err = NoErr
  /\ seen' = [seen EXCEPT ![k] = @ \cup {Authenticate(k).user[1]}]
  /\ UNCHANGED <<users, user_tokens, now, calls, faults, impl, pc, req, tx, loc, out, ops,
                 logged, pool, srv>>

\* CreateUser by a staff actor, one call at a time, user deletion, and a
\* client that authenticates with the secrets again and again
NextRebind ==
  \/ \E p \in Procs :
       \/ \E u \in Usernames, s \in BOOLEAN :
            Alone(p) /\ CallCreateUser(p, Some(staffUser), u, s)
       \/ TransactionSteps(p)
       \/ Reset(p)
  \/ \E uid \in {u.id : u \in users} : QDeleteUser(uid)
  \/ \E k \in Secrets : ObservedAuthentication(k)

SpecRebind == InitGate /\ [][NextRebind]_vars

\* the ids of the users that token rows with secret k belong to
TokenOwner(k) == {t.user_id : t \in {r \in user_tokens : r.token = k}}
\* the identities given out for secret k whose user row still exists
LiveIdentities(k) == {i \in seen[k] : \E u \in users : IdentityOf(u) = i}
\* the call of task p was aborted by user_tokens_token_key
Collided(p) ==
  /\ req[p].kind = "createUser"
  /\ pc[p] = "done"
  /\ out[p].err # NoErr
  /\ RootMessage(out[p].err) = UniqueToken
\* a call aborted by user_tokens_token_key returned no result and left no
\* user row and no token row
CollisionAborts ==
  \A p \in Procs :
    Collided(p) =>
      /\ out[p].result = None
      /\ VisibleUserOf(p) = {}
      /\ VisibleTokenOf(p) = {}

====
